---- MODULE Spec2Model ----
(***************************************************************************)
(* Verification model of the invoice generator (juashyam/invoice-generator)*)
(*                                                                         *)
(*   lib/utils      calculateSubtotal, calculateTotal, generateId          *)
(*   lib/storage    localStorage helpers, customers, products, draft,      *)
(*                  history, getAllProducts (src/unnamed/part_003)         *)
(*   lib/sheets     sheet fetch, cache, parseCSV (src/unnamed/part_002)    *)
(*   app/page       NewInvoicePage handlers (src/unnamed/part_001)         *)
(*                                                                         *)
(* Conventions.  Text is a sequence of one-character strings, so that trim,*)
(* toLowerCase and parseFloat are computed.  A JavaScript number is a      *)
(* record [k, v]: k = "num" with v the value in hundredths, k = "inf" with *)
(* v the sign, k = "nan", or k = "null" (what JSON.stringify leaves of a   *)
(* non-finite number).  A nullable value is a sequence of length <= 1.     *)
(* generateId returns the least positive integer that is no identity of    *)
(* its kind anywhere in the state; 0 is the empty string ''.               *)
(***************************************************************************)
EXTENDS Integers, Sequences, FiniteSets, TLC

(***************************************************************************)
(* Nullable values                                                         *)
(***************************************************************************)
None == <<>>

Some(x) == <<x>>

IsSome(o) == Len(o) > 0

Val(o) == o[1]

(***************************************************************************)
(* Text                                                                    *)
(***************************************************************************)
UpperChars == <<"A", "B", "C", "D", "E", "F", "G", "H", "I", "J", "K", "L", "M",
                "N", "O", "P", "Q", "R", "S", "T", "U", "V", "W", "X", "Y", "Z">>

LowerChars == <<"a", "b", "c", "d", "e", "f", "g", "h", "i", "j", "k", "l", "m",
                "n", "o", "p", "q", "r", "s", "t", "u", "v", "w", "x", "y", "z">>

DigitChars == <<"0", "1", "2", "3", "4", "5", "6", "7", "8", "9">>

WhiteSpace == {" ", "\t", "\n", "\r"}

LowerChar(c) ==
  IF \E i \in 1..Len(UpperChars) : UpperChars[i] = c
  THEN LowerChars[CHOOSE i \in 1..Len(UpperChars) : UpperChars[i] = c]
  ELSE c

\* String.prototype.toLowerCase
toLowerCase(s) == [i \in 1..Len(s) |-> LowerChar(s[i])]

RECURSIVE TrimStart(_)
TrimStart(s) ==
  IF s # <<>> /\ Head(s) \in WhiteSpace THEN TrimStart(Tail(s)) ELSE s

RECURSIVE TrimEnd(_)
TrimEnd(s) ==
  IF s # <<>> /\ s[Len(s)] \in WhiteSpace
  THEN TrimEnd(SubSeq(s, 1, Len(s) - 1))
  ELSE s

\* String.prototype.trim
trim(s) == TrimEnd(TrimStart(s))

IsDigit(c) == \E i \in 1..Len(DigitChars) : DigitChars[i] = c

DigitVal(c) == (CHOOSE i \in 1..Len(DigitChars) : DigitChars[i] = c) - 1

StartsWith(s, p) == Len(s) >= Len(p) /\ SubSeq(s, 1, Len(p)) = p

(***************************************************************************)
(* Numbers                                                                 *)
(***************************************************************************)
\* hundredths per unit: Num(n).v = 100 * n
Scale == 100

Num(v) == [k |-> "num", v |-> v]

Infinity == [k |-> "inf", v |-> 1]

NegInfinity == [k |-> "inf", v |-> -1]

NaN == [k |-> "nan", v |-> 0]

Null == [k |-> "null", v |-> 0]

\* ToNumber(null) = 0 when a JSON null takes part in arithmetic
ToNumber(x) == IF x.k = "null" THEN Num(0) ELSE x

isNaN(x) == ToNumber(x).k = "nan"

Sign(x) == IF x.v > 0 THEN 1 ELSE IF x.v < 0 THEN -1 ELSE 0

\* x < y of IEEE numbers: false whenever an operand is NaN
Less(x0, y0) ==
  LET x == ToNumber(x0)
      y == ToNumber(y0)
  IN  IF x.k = "nan" \/ y.k = "nan" THEN FALSE
      ELSE IF x.k = "inf" THEN x.v < 0 /\ ~(y.k = "inf" /\ y.v < 0)
      ELSE IF y.k = "inf" THEN y.v > 0
      ELSE x.v < y.v

\* x <= y of IEEE numbers
LessEq(x0, y0) ==
  LET x == ToNumber(x0)
      y == ToNumber(y0)
  IN  IF x.k = "nan" \/ y.k = "nan" THEN FALSE ELSE ~Less(y, x)

\* x === y of IEEE numbers: NaN equals nothing, itself included
StrictEq(x, y) ==
  IF x.k = "nan" \/ y.k = "nan" THEN FALSE ELSE x = y

\* x * y
Times(x0, y0) ==
  LET x == ToNumber(x0)
      y == ToNumber(y0)
  IN  IF x.k = "nan" \/ y.k = "nan" THEN NaN
      ELSE IF x.k = "inf" \/ y.k = "inf"
           THEN IF Sign(x) * Sign(y) = 0 THEN NaN
                ELSE [k |-> "inf", v |-> Sign(x) * Sign(y)]
           ELSE Num((x.v * y.v) \div Scale)

\* x + y
Plus(x0, y0) ==
  LET x == ToNumber(x0)
      y == ToNumber(y0)
  IN  IF x.k = "nan" \/ y.k = "nan" THEN NaN
      ELSE IF x.k = "inf" /\ y.k = "inf"
           THEN IF x.v = y.v THEN x ELSE NaN
      ELSE IF x.k = "inf" THEN x
      ELSE IF y.k = "inf" THEN y
      ELSE Num(x.v + y.v)

RECURSIVE DigitsLen(_)
\* length of the longest prefix of s made of decimal digits
DigitsLen(s) ==
  IF s # <<>> /\ IsDigit(Head(s)) THEN 1 + DigitsLen(Tail(s)) ELSE 0

RECURSIVE DigitsValue(_)
\* value of a sequence of decimal digits
DigitsValue(s) ==
  IF s = <<>> THEN 0
  ELSE 10 * DigitsValue(SubSeq(s, 1, Len(s) - 1)) + DigitVal(s[Len(s)])

\* the fraction digits f as hundredths (digits after the second are cut)
FractionValue(f) ==
  IF Len(f) = 0 THEN 0
  ELSE IF Len(f) = 1 THEN 10 * DigitVal(f[1])
  ELSE 10 * DigitVal(f[1]) + DigitVal(f[2])

InfinityText == <<"I", "n", "f", "i", "n", "i", "t", "y">>

\* parseFloat of the text after its sign: the longest decimal prefix,
\* "Infinity", or NaN; what follows the prefix is ignored
ParseUnsigned(s) ==
  IF StartsWith(s, InfinityText) THEN Infinity
  ELSE LET n    == DigitsLen(s)
           rest == SubSeq(s, n + 1, Len(s))
           m    == IF rest # <<>> /\ Head(rest) = "." THEN DigitsLen(Tail(rest)) ELSE 0
       IN  IF n = 0 /\ m = 0 THEN NaN
           ELSE Num(Scale * DigitsValue(SubSeq(s, 1, n))
                    + FractionValue(SubSeq(rest, 2, m + 1)))

\* parseFloat
parseFloat(str) ==
  LET s == TrimStart(str)
  IN  IF s # <<>> /\ Head(s) = "-"
      THEN LET u == ParseUnsigned(Tail(s))
           IN  IF u.k = "nan" THEN NaN ELSE [k |-> u.k, v |-> 0 - u.v]
      ELSE IF s # <<>> /\ Head(s) = "+" THEN ParseUnsigned(Tail(s))
      ELSE ParseUnsigned(s)

\* JSON.stringify followed by JSON.parse of a number: a non-finite number
\* is written as null
JsonNumber(x) == IF x.k \in {"inf", "nan"} THEN Null ELSE x

(***************************************************************************)
(* Bounds                                                                  *)
(***************************************************************************)
\* customers the customers key may hold
MaxCustomers == 2

\* manual products the products key may hold
MaxProducts == 2

\* the highest usage count of a manual product
MaxUsage == 2

\* line items one invoice may hold
MaxItems == 2

\* getAllProducts calls waiting for the network at the same time
MaxPending == 2

\* the clock stops here
MaxNow == 300000

\* finalized invoices the history may hold
MaxHistory == 2

\* line items of one document
MaxRows == 20

\* rows of a sheet below its header
MaxSheetRows == 2

(***************************************************************************)
(* Program constants                                                       *)
(***************************************************************************)
\* sheets: const CACHE_DURATION = 5 * 60 * 1000
CACHE_DURATION == 300000

\* storage: getMostFrequentCustomers(limit = 5)
FrequentLimit == 5

\* page: setTimeout(..., 1000) is a timer, not a duration the model measures

(***************************************************************************)
(* Sample texts                                                            *)
(***************************************************************************)
Milk == <<"M", "i", "l", "k">>

milk == <<"m", "i", "l", "k">>

Paneer == <<"P", "a", "n", "e", "e", "r">>

Blank == <<" ">>

Asha == <<"A", "s", "h", "a">>

Phone98 == <<"9", "8">>

Pune == <<"P", "u", "n", "e">>

T0 == <<"0">>

T1 == <<"1">>

THalf == <<"0", ".", "5">>

T50 == <<"5", "0">>

T500 == <<"5", "0", "0">>

TMinus5 == <<"-", "5">>

TWord == <<"a", "b", "c">>

(***************************************************************************)
(* State                                                                   *)
(***************************************************************************)
VARIABLES
  \* React state of NewInvoicePage
  screen, invoice, selectedCustomer, merchantConfig, frequentCustomers,
  products, editingItem, generatedPdfBlob, shareError,
  \* localStorage, one variable per key
  draftStore, customersStore, productsStore, invoicesStore, configStore,
  cacheStore, cacheTimeStore,
  \* module state of lib/sheets
  cachedProducts, lastFetchTime,
  \* the locals of the getAllProducts call that returned last
  loaded,
  \* environment: build-time sheet id, clock
  SHEET_ID, now,
  \* the document a generateInvoicePDF call is drawing
  pdf,
  \* observations, read by no action: when clearProductCache ran last, and
  \* how the navigator.share call of the share screen on display settled
  invalidatedAt, shareSettled,
  \* callbacks and promises not yet run
  pendingFetches, pendingShare, pendingReaders, pendingResets

vars == <<screen, invoice, selectedCustomer, merchantConfig, frequentCustomers,
          products, editingItem, generatedPdfBlob, shareError,
          draftStore, customersStore, productsStore, invoicesStore, configStore,
          cacheStore, cacheTimeStore, cachedProducts, lastFetchTime,
          loaded, SHEET_ID, now, pdf, invalidatedAt, shareSettled,
          pendingFetches, pendingShare, pendingReaders, pendingResets>>

reactVars == <<screen, invoice, selectedCustomer, merchantConfig, frequentCustomers,
               products, editingItem, generatedPdfBlob, shareError>>

storeVars == <<draftStore, customersStore, productsStore, invoicesStore, configStore,
               cacheStore, cacheTimeStore>>

sheetVars == <<cachedProducts, lastFetchTime>>

catalogVars == <<products, loaded, pendingFetches>>

pendingVars == <<pendingFetches, pendingShare, pendingReaders, pendingResets>>

\* what the handlers of the page leave alone: the build's sheet id, a
\* document being drawn, the observations
outside == <<SHEET_ID, pdf, invalidatedAt, shareSettled>>

(***************************************************************************)
(* lib/utils                                                               *)
(***************************************************************************)
RECURSIVE Reduce(_, _)
\* lineItems.reduce((sum, item) => sum + item.unitPrice * item.quantity, acc)
Reduce(lineItems, acc) ==
  IF lineItems = <<>> THEN acc
  ELSE Reduce(Tail(lineItems),
              Plus(acc, Times(Head(lineItems).unitPrice, Head(lineItems).quantity)))

calculateSubtotal(lineItems) == Reduce(lineItems, Num(0))

calculateTotal(lineItems) == calculateSubtotal(lineItems)

\* the least positive integer outside used
FreshId(used) ==
  CHOOSE n \in 1..(Cardinality(used) + 1) :
    n \notin used /\ \A m \in 1..(n - 1) : m \in used

Range(seq) == {seq[i] : i \in 1..Len(seq)}

Ids(seq) == {seq[i].id : i \in 1..Len(seq)}

(***************************************************************************)
(* lib/storage                                                             *)
(***************************************************************************)
\* A key of the store holds <<>> when nothing is stored under it, <<v>> when
\* its text is the JSON of v, and a longer sequence when its text is no JSON.
\* a getFromStorage that takes whatever is stored under the key
getFromStorageUnguarded(item, defaultValue) ==
  IF item # <<>> THEN item[1] ELSE defaultValue

\* getFromStorage: the stored value, or the default when the key is missing
\* or JSON.parse throws
getFromStorage(item, defaultValue) ==
  IF Len(item) = 1 THEN item[1] ELSE defaultValue

\* JSON.stringify of a line item, read back
LineItemJson(item) ==
  [item EXCEPT !.unitPrice = JsonNumber(@), !.quantity = JsonNumber(@)]

\* JSON.stringify of an invoice, read back
InvoiceJson(inv) ==
  [inv EXCEPT !.lineItems = [i \in 1..Len(@) |-> LineItemJson(@[i])],
              !.subtotal = JsonNumber(@),
              !.total = JsonNumber(@)]

\* JSON.stringify of a product, read back
ProductJson(p) ==
  [p EXCEPT !.price = JsonNumber(@),
            !.defaultQuantity = IF IsSome(@) THEN Some(JsonNumber(Val(@))) ELSE @]

ProductsJson(ps) == [i \in 1..Len(ps) |-> ProductJson(ps[i])]

\* saveToStorage: what the key holds afterwards
saveToStorage(json) == Some(json)

getCustomers == getFromStorage(customersStore, <<>>)

getProducts == getFromStorage(productsStore, <<>>)

\* a getDraftInvoice that reads a key nothing is stored under
getDraftInvoiceOfMissingKey == None

\* the default is null: the result is an Invoice or nothing
getDraftInvoice ==
  getFromStorage([i \in DOMAIN draftStore |-> Some(draftStore[i])], None)

getInvoices == getFromStorage(invoicesStore, <<>>)

IndexOf(seq, Test(_)) ==
  IF \E i \in 1..Len(seq) : Test(seq[i])
  THEN CHOOSE i \in 1..Len(seq) : Test(seq[i]) /\ \A j \in 1..(i - 1) : ~Test(seq[j])
  ELSE 0

\* saveCustomer: the customers key afterwards
saveCustomer(customers, customer) ==
  LET existingIndex == IndexOf(customers, LAMBDA c : c.id = customer.id)
  IN  IF existingIndex > 0
      THEN [customers EXCEPT ![existingIndex] = customer]
      ELSE Append(customers, customer)

\* an incrementCustomerUsage that finds no customer
incrementCustomerUsageOfNobody(customers, customerId) == customers

\* incrementCustomerUsage: the customers key afterwards
incrementCustomerUsage(customers, customerId) ==
  LET i == IndexOf(customers, LAMBDA c : c.id = customerId)
  IN  IF i > 0
      THEN [customers EXCEPT ![i] = [@ EXCEPT !.usageCount = @ + 1, !.lastUsed = now]]
      ELSE customers

\* saveProduct: the products key afterwards
saveProduct(prods, product) ==
  LET existingIndex == IndexOf(prods, LAMBDA p : p.id = product.id)
  IN  IF existingIndex > 0
      THEN [prods EXCEPT ![existingIndex] = product]
      ELSE Append(prods, product)

\* incrementProductUsage: the products key afterwards
incrementProductUsage(prods, productId) ==
  LET i == IndexOf(prods, LAMBDA p : p.id = productId)
  IN  IF i > 0
      THEN [prods EXCEPT ![i] = [@ EXCEPT !.usageCount = @ + 1]]
      ELSE prods

\* the comparators handed to Array.prototype.sort: a sorts before b
SortsBefore(order, a, b) ==
  IF order = "customers"
  THEN b.usageCount < a.usageCount
       \/ (b.usageCount = a.usageCount /\ b.lastUsed < a.lastUsed)
  ELSE b.usageCount < a.usageCount

RECURSIVE InsertSorted(_, _, _)
InsertSorted(sorted, x, order) ==
  IF sorted = <<>> THEN <<x>>
  ELSE IF SortsBefore(order, x, sorted[Len(sorted)])
       THEN Append(InsertSorted(SubSeq(sorted, 1, Len(sorted) - 1), x, order),
                   sorted[Len(sorted)])
       ELSE Append(sorted, x)

RECURSIVE SortBy(_, _)
\* Array.prototype.sort, stable
SortBy(seq, order) ==
  IF seq = <<>> THEN <<>>
  ELSE InsertSorted(SortBy(SubSeq(seq, 1, Len(seq) - 1), order), seq[Len(seq)], order)

Slice(seq, n) == SubSeq(seq, 1, IF Len(seq) < n THEN Len(seq) ELSE n)

\* getMostFrequentCustomers over the given customers key
getMostFrequentCustomers(customers) == Slice(SortBy(customers, "customers"), FrequentLimit)

\* getProductsSortedByUsage over the given products key
getProductsSortedByUsage(prods) == SortBy(prods, "products")

\* a merge that compares the names as they are written
MergeProductsCaseSensitive(sheetProducts, manualProducts) ==
  sheetProducts \o
  SelectSeq(manualProducts,
            LAMBDA p : ~p.fromSheet
                       /\ ~\E i \in 1..Len(sheetProducts) :
                             sheetProducts[i].name = p.name)

\* a merge that returns the sheet products alone
MergeProductsSheetOnly(sheetProducts, manualProducts) == sheetProducts

\* a merge that puts the manual products first
MergeProductsManualFirst(sheetProducts, manualProducts) ==
  SelectSeq(manualProducts,
            LAMBDA p : ~p.fromSheet
                       /\ ~\E i \in 1..Len(sheetProducts) :
                             toLowerCase(sheetProducts[i].name) = toLowerCase(p.name))
  \o sheetProducts

\* getAllProducts, the merge after the sheet products arrived:
\* sheet products first, then manual products not in the sheet
MergeProducts(sheetProducts, manualProducts) ==
  sheetProducts \o
  SelectSeq(manualProducts,
            LAMBDA p : ~p.fromSheet
                       /\ ~\E i \in 1..Len(sheetProducts) :
                             toLowerCase(sheetProducts[i].name) = toLowerCase(p.name))

DEFAULT_MERCHANT_CONFIG == [businessName |-> <<>>, googleSheetId |-> None]

getMerchantConfig == getFromStorage(configStore, DEFAULT_MERCHANT_CONFIG)

(***************************************************************************)
(* lib/sheets                                                              *)
(***************************************************************************)
RECURSIVE Split(_, _)
\* String.prototype.split(sep) for a one-character separator
Split(s, sep) ==
  IF \E i \in 1..Len(s) : s[i] = sep
  THEN LET i == CHOOSE j \in 1..Len(s) : s[j] = sep /\ \A h \in 1..(j - 1) : s[h] # sep
       IN  <<SubSeq(s, 1, i - 1)>> \o Split(SubSeq(s, i + 1, Len(s)), sep)
  ELSE <<s>>

\* p.replace(/^"|"/g, ''): every double quote goes
StripQuotes(s) == SelectSeq(s, LAMBDA c : c # "\"")

\* line.split(',').map(p => p.trim().replace(/^"|"/g, ''))
LineParts(line) ==
  LET raw == Split(line, ",")
  IN  [i \in 1..Len(raw) |-> StripQuotes(trim(raw[i]))]

\* the body of parseCSV's loop: the product of one row with the identity id,
\* or none
RowProduct(rawLine, id) ==
  LET line  == trim(rawLine)
      parts == LineParts(line)
  IN  IF line = <<>> \/ Len(parts) < 3 THEN None
      ELSE LET name            == parts[1]
               price           == parseFloat(parts[2])
               unit            == parts[3]
               defaultQuantity == IF Len(parts) >= 4 /\ parts[4] # <<>>
                                  THEN Some(parseFloat(parts[4])) ELSE None
           IN  IF name # <<>> /\ ~isNaN(price) /\ unit # <<>>
               THEN Some([id |-> id,
                          name |-> name,
                          price |-> price,
                          unit |-> toLowerCase(unit),
                          defaultQuantity |->
                            IF IsSome(defaultQuantity)
                               /\ Val(defaultQuantity) # Num(0)
                               /\ ~isNaN(Val(defaultQuantity))
                            THEN defaultQuantity ELSE None,
                          usageCount |-> 0,
                          fromSheet |-> TRUE])
               ELSE None

RECURSIVE ParseRows(_, _)
\* parseCSV's loop over the given lines; used holds the identities generateId
\* must avoid
ParseRows(lines, used) ==
  IF lines = <<>> THEN <<>>
  ELSE LET p == RowProduct(Head(lines), FreshId(used))
       IN  IF IsSome(p)
           THEN <<Val(p)>> \o ParseRows(Tail(lines), used \cup {Val(p).id})
           ELSE ParseRows(Tail(lines), used)

\* parseCSV: the header row is skipped
parseCSV(csvText, used) ==
  LET lines == Split(trim(csvText), "\n")
  IN  ParseRows(Tail(lines), used)

RECURSIVE IntToText(_)
\* Number.prototype.toString of a non-negative integer
IntToText(n) ==
  IF n < 10 THEN <<DigitChars[n + 1]>>
  ELSE Append(IntToText(n \div 10), DigitChars[(n % 10) + 1])

\* parseInt of the text toString wrote
parseInt(text) == DigitsValue(SubSeq(text, 1, DigitsLen(text)))

\* a cache test that still takes an entry of exactly the cache duration
FetchDecisionInclusive(cached, lastFetch) ==
  IF IsSome(cached) /\ now - lastFetch <= CACHE_DURATION /\ SHEET_ID # ""
  THEN "cache"
  ELSE IF SHEET_ID = "" THEN "empty"
  ELSE "fetch"

\* what fetchProductsFromSheet does before any network request:
\* "cache" returns cachedProducts, "empty" returns [], "fetch" goes on to fetch
FetchDecision(cached, lastFetch) ==
  IF IsSome(cached) /\ now - lastFetch < CACHE_DURATION /\ SHEET_ID # ""
  THEN "cache"
  ELSE IF SHEET_ID = "" THEN "empty"
  ELSE "fetch"

\* the module's cache load: cachedProducts and lastFetchTime after the import
LoadedCache ==
  IF IsSome(cacheStore) /\ IsSome(cacheTimeStore)
     /\ now - parseInt(Val(cacheTimeStore)) < CACHE_DURATION
  THEN [cachedProducts |-> Some(Val(cacheStore)),
        lastFetchTime |-> parseInt(Val(cacheTimeStore))]
  ELSE [cachedProducts |-> None, lastFetchTime |-> 0]

RECURSIVE Join(_, _)
\* Array.prototype.join
Join(texts, sep) ==
  IF texts = <<>> THEN <<>>
  ELSE IF Len(texts) = 1 THEN texts[1]
  ELSE texts[1] \o <<sep>> \o Join(Tail(texts), sep)

\* the text of a sheet exported as CSV: rows of fields
CsvText(rows) == Join([i \in 1..Len(rows) |-> Join(rows[i], ",")], "\n")

(***************************************************************************)
(* app/page: NewInvoicePage                                                *)
(***************************************************************************)
\* every invoice held anywhere: in memory, under the draft key, in the
\* history, in a closure
AllInvoices ==
  Range(invoice) \cup Range(draftStore) \cup Range(getInvoices)
  \cup UNION {Range(pendingReaders[i].invoice) : i \in 1..Len(pendingReaders)}
  \cup (IF IsSome(pendingShare) THEN Range(Val(pendingShare).closure.invoice) ELSE {})

\* every product held anywhere
AllProducts ==
  Range(products) \cup Range(getProducts)
  \cup (IF IsSome(cachedProducts) THEN Range(Val(cachedProducts)) ELSE {})
  \cup (IF IsSome(cacheStore) THEN Range(Val(cacheStore)) ELSE {})
  \cup Range(loaded.manualProducts) \cup Range(loaded.sheetProducts)
  \cup UNION {Range(pendingFetches[i].manualProducts) : i \in 1..Len(pendingFetches)}

\* the identities of a kind that are in use
UsedIds(kind) ==
  CASE kind = "invoice" -> {inv.id : inv \in AllInvoices}
    [] kind = "item" -> UNION {Ids(inv.lineItems) : inv \in AllInvoices}
                        \cup Ids(editingItem)
    [] kind = "customer" -> Ids(getCustomers) \cup Ids(frequentCustomers)
                            \cup Ids(selectedCustomer)
    [] kind = "product" -> {p.id : p \in AllProducts}

\* a generateId without its random part: the time of the call alone
generateIdOfClock(kind) == now + 1

\* generateId: an identity of the kind that nothing in the state carries
generateId(kind) == FreshId(UsedIds(kind))

\* a new invoice that is no draft
NewInvoiceFinal(id) ==
  [id |-> id, customerId |-> 0, customerName |-> <<>>,
   customerPhone |-> None, customerAddress |-> None,
   lineItems |-> <<>>, subtotal |-> Num(0), total |-> Num(0),
   createdAt |-> now, isDraft |-> FALSE, generatedPdfBlob |-> None]

\* the new draft Initialize and the reset timer build
NewInvoice(id) ==
  [id |-> id, customerId |-> 0, customerName |-> <<>>,
   customerPhone |-> None, customerAddress |-> None,
   lineItems |-> <<>>, subtotal |-> Num(0), total |-> Num(0),
   createdAt |-> now, isDraft |-> TRUE, generatedPdfBlob |-> None]

\* no getAllProducts call has returned yet
NoLoad ==
  [via |-> "none", sheetProducts |-> <<>>, manualProducts |-> <<>>,
   startedAt |-> 0, at |-> 0, cachedAt |-> 0]

\* no generateInvoicePDF call is drawing
NoDocument ==
  [phase |-> "none", page |-> 0, yPosition |-> 0, rows |-> 0, row |-> None,
   totals |-> None]

\* a fresh installation before the page is opened: useState defaults, empty
\* localStorage, no cache; the build either has a sheet id or has none
Init ==
  /\ screen = "customer-selection"
  /\ invoice = None
  /\ selectedCustomer = None
  /\ merchantConfig = None
  /\ frequentCustomers = <<>>
  /\ products = <<>>
  /\ editingItem = None
  /\ generatedPdfBlob = None
  /\ shareError = ""
  /\ draftStore = None
  /\ customersStore = None
  /\ productsStore = None
  /\ invoicesStore = None
  /\ configStore = None
  /\ cacheStore = None
  /\ cacheTimeStore = None
  /\ cachedProducts = None
  /\ lastFetchTime = 0
  /\ loaded = NoLoad
  /\ SHEET_ID \in {"", "sheet"}
  /\ now = 0
  /\ pdf = NoDocument
  /\ invalidatedAt = None
  /\ shareSettled = None
  /\ pendingFetches = <<>>
  /\ pendingShare = None
  /\ pendingReaders = <<>>
  /\ pendingResets = 0

\* a fresh installation of a build without a sheet id
InitWithoutSheet == Init /\ SHEET_ID = ""

\* a page that shows no control while a fetch of the sheet waits
InteractiveOnceLoaded == IsSome(invoice) /\ pendingShare = None /\ pendingFetches = <<>>

\* the page shows controls only once the invoice is set, and not under the
\* system share sheet
Interactive == IsSome(invoice) /\ pendingShare = None

\* the auto-save effect, which runs when a handler that set the invoice returns
AutoSave(inv) == draftStore' = saveToStorage(InvoiceJson(inv))

\* the locals of a getAllProducts call when fetchProductsFromSheet has
\* returned sheetProducts by the return statement via: "cache" (cachedProducts
\* while valid), "empty" (no sheet id), "fetched" (the parsed response) or
\* "fallback" (cachedProducts || [] after a failed fetch)
Returned(via, sheetProducts, manualProducts, startedAt, lastFetch) ==
  [via |-> via, sheetProducts |-> sheetProducts, manualProducts |-> manualProducts,
   startedAt |-> startedAt, at |-> now, cachedAt |-> lastFetch]

\* a getAllProducts call left waiting for the network
PendingFetch(manualProducts, then) ==
  [manualProducts |-> manualProducts, then |-> then, startedAt |-> now]

\* getAllProducts() as a handler calls it, the products key holding manual and
\* the sheets module cached and lastFetch: either the call returns at once and
\* its then runs, or it waits for the network
LoadProducts(manual, cached, lastFetch, waiting, then) ==
  LET decision == FetchDecision(cached, lastFetch)
      sheetProducts == IF decision = "cache" THEN Val(cached) ELSE <<>>
  IN  IF decision = "fetch"
      THEN /\ Len(waiting) < MaxPending
           /\ pendingFetches' = Append(waiting, PendingFetch(manual, then))
           /\ UNCHANGED <<products, loaded>>
      ELSE /\ pendingFetches' = waiting
           /\ loaded' = Returned(decision, sheetProducts, manual, now, lastFetch)
           /\ products' = MergeProducts(sheetProducts, manual)

\* Process start: the sheets module loads its cache, and the mount effect
\* restores or creates the draft, reads customers and configuration, and
\* starts loading the products.  Whatever the previous process left
\* unfinished is gone.
Initialize ==
  LET draft     == getDraftInvoice
      customers == getCustomers
      resumed   == IsSome(draft) /\ Val(draft).customerId # 0
      ci        == IF resumed
                   THEN IndexOf(customers, LAMBDA c : c.id = Val(draft).customerId)
                   ELSE 0
      inv       == IF IsSome(draft) THEN Val(draft)
                   ELSE NewInvoice(generateId("invoice"))
      cache     == LoadedCache
  IN  /\ invoice' = Some(inv)
      /\ selectedCustomer' = IF ci > 0 THEN Some(customers[ci]) ELSE None
      /\ screen' = IF ci > 0 THEN "items" ELSE "customer-selection"
      /\ AutoSave(inv)
      /\ frequentCustomers' = getMostFrequentCustomers(customers)
      /\ merchantConfig' = Some(getMerchantConfig)
      /\ editingItem' = None
      /\ generatedPdfBlob' = None
      /\ shareError' = ""
      /\ cachedProducts' = cache.cachedProducts
      /\ lastFetchTime' = cache.lastFetchTime
      /\ IF FetchDecision(cache.cachedProducts, cache.lastFetchTime) = "fetch"
         THEN /\ products' = <<>>
              /\ loaded' = NoLoad
              /\ pendingFetches' = <<PendingFetch(getProducts, "setProducts")>>
         ELSE LoadProducts(getProducts, cache.cachedProducts, cache.lastFetchTime,
                           <<>>, "setProducts")
      /\ pendingShare' = None
      /\ pendingReaders' = <<>>
      /\ pendingResets' = 0
      /\ shareSettled' = None
      /\ UNCHANGED <<customersStore, productsStore, invoicesStore, configStore,
                     cacheStore, cacheTimeStore, SHEET_ID, pdf, invalidatedAt, now>>

\* selectExistingCustomer's assignments
SelectCustomerEffectWithoutReference(customer) ==
  /\ selectedCustomer' = Some(customer)
  /\ invoice' = invoice
  /\ screen' = "items"
  /\ AutoSave(Val(invoice))

SelectCustomerEffectKeepingSnapshot(customer) ==
  LET inv == [Val(invoice) EXCEPT !.customerId = customer.id,
                                  !.customerName = customer.name]
  IN  /\ selectedCustomer' = Some(customer)
      /\ invoice' = Some(inv)
      /\ screen' = "items"
      /\ AutoSave(inv)

SelectCustomerEffect(customer) ==
  LET inv == [Val(invoice) EXCEPT !.customerId = customer.id,
                                  !.customerName = customer.name,
                                  !.customerPhone = customer.phone,
                                  !.customerAddress = customer.address]
  IN  /\ selectedCustomer' = Some(customer)
      /\ invoice' = Some(inv)
      /\ screen' = "items"
      /\ AutoSave(inv)

\* selectExistingCustomer, from the list or the dropdown of frequent customers
selectExistingCustomer(i) ==
  /\ Interactive
  /\ screen = "customer-selection"
  /\ i \in 1..Len(frequentCustomers)
  /\ SelectCustomerEffect(frequentCustomers[i])
  /\ UNCHANGED <<merchantConfig, frequentCustomers, editingItem,
                 generatedPdfBlob, shareError, customersStore, productsStore,
                 invoicesStore, configStore, cacheStore, cacheTimeStore,
                 sheetVars, catalogVars, outside, now,
                 pendingShare, pendingReaders, pendingResets>>

\* String.prototype.includes
Includes(s, sub) ==
  \E i \in 0..(Len(s) - Len(sub)) : SubSeq(s, i + 1, i + Len(sub)) = sub

\* filteredCustomers for the text in the search box
filteredCustomers(customerSearch) ==
  IF trim(customerSearch) # <<>>
  THEN SelectSeq(frequentCustomers,
                 LAMBDA c : \/ Includes(toLowerCase(c.name), toLowerCase(customerSearch))
                            \/ (IsSome(c.phone) /\ Includes(Val(c.phone), customerSearch)))
  ELSE frequentCustomers

\* '' and undefined are the falsy values of: text.trim() || undefined
TrimOrUndefined(text) == IF trim(text) # <<>> THEN Some(trim(text)) ELSE None

\* addNewCustomerInline; its button shows while showCustomerForm holds, that is
\* while the search text is not blank and matches no frequent customer
addNewCustomerInline(customerSearch, newCustomerPhone, newCustomerAddress) ==
  /\ Interactive
  /\ screen = "customer-selection"
  /\ trim(customerSearch) # <<>>
  /\ filteredCustomers(customerSearch) = <<>>
  /\ Len(getCustomers) < MaxCustomers
  /\ LET newCustomer == [id |-> generateId("customer"),
                         name |-> trim(customerSearch),
                         phone |-> TrimOrUndefined(newCustomerPhone),
                         address |-> TrimOrUndefined(newCustomerAddress),
                         usageCount |-> 0,
                         lastUsed |-> now]
         saved == saveCustomer(getCustomers, newCustomer)
     IN  /\ customersStore' = saveToStorage(saved)
         /\ SelectCustomerEffect(newCustomer)
         /\ frequentCustomers' = getMostFrequentCustomers(saved)
  /\ UNCHANGED <<merchantConfig, editingItem, generatedPdfBlob, shareError,
                 productsStore, invoicesStore, configStore, cacheStore, cacheTimeStore,
                 sheetVars, catalogVars, outside, now,
                 pendingShare, pendingReaders, pendingResets>>

changeCustomerKeepingReference ==
  /\ Interactive
  /\ screen = "items"
  /\ selectedCustomer' = None
  /\ screen' = "customer-selection"
  /\ UNCHANGED <<invoice, draftStore, merchantConfig, frequentCustomers, editingItem,
                 generatedPdfBlob, shareError, customersStore, productsStore,
                 invoicesStore, configStore, cacheStore, cacheTimeStore,
                 sheetVars, catalogVars, outside, now,
                 pendingShare, pendingReaders, pendingResets>>

\* the Change button of the items screen
changeCustomer ==
  /\ Interactive
  /\ screen = "items"
  /\ LET inv == [Val(invoice) EXCEPT !.customerId = 0, !.customerName = <<>>]
     IN  /\ invoice' = Some(inv)
         /\ AutoSave(inv)
  /\ selectedCustomer' = None
  /\ screen' = "customer-selection"
  /\ UNCHANGED <<merchantConfig, frequentCustomers, editingItem,
                 generatedPdfBlob, shareError, customersStore, productsStore,
                 invoicesStore, configStore, cacheStore, cacheTimeStore,
                 sheetVars, catalogVars, outside, now,
                 pendingShare, pendingReaders, pendingResets>>

openAddItem ==
  /\ Interactive
  /\ screen = "items"
  /\ editingItem' = None
  /\ screen' = "add-item"
  /\ UNCHANGED <<invoice, selectedCustomer, merchantConfig, frequentCustomers, products,
                 generatedPdfBlob, shareError, storeVars, sheetVars, loaded, outside,
                 now, pendingVars>>

openEditItem(i) ==
  /\ Interactive
  /\ screen = "items"
  /\ i \in 1..Len(Val(invoice).lineItems)
  /\ editingItem' = Some(Val(invoice).lineItems[i])
  /\ screen' = "add-item"
  /\ UNCHANGED <<invoice, selectedCustomer, merchantConfig, frequentCustomers, products,
                 generatedPdfBlob, shareError, storeVars, sheetVars, loaded, outside,
                 now, pendingVars>>

cancelAddItem ==
  /\ Interactive
  /\ screen = "add-item"
  /\ screen' = "items"
  /\ UNCHANGED <<invoice, selectedCustomer, merchantConfig, frequentCustomers, products,
                 editingItem, generatedPdfBlob, shareError, storeVars, sheetVars,
                 loaded, outside, now, pendingVars>>

\* a filter that drops the first item, whatever its id
DeletedFromHead(inv, itemId) ==
  LET updatedLineItems == IF inv.lineItems = <<>> THEN <<>> ELSE Tail(inv.lineItems)
  IN  [inv EXCEPT !.lineItems = updatedLineItems,
                  !.subtotal = calculateSubtotal(updatedLineItems),
                  !.total = calculateTotal(updatedLineItems)]

\* deleteItem's new invoice
DeletedFrom(inv, itemId) ==
  LET updatedLineItems == SelectSeq(inv.lineItems, LAMBDA item : item.id # itemId)
  IN  [inv EXCEPT !.lineItems = updatedLineItems,
                  !.subtotal = calculateSubtotal(updatedLineItems),
                  !.total = calculateTotal(updatedLineItems)]

deleteItem(itemId) ==
  /\ Interactive
  /\ screen = "items"
  /\ invoice' = Some(DeletedFrom(Val(invoice), itemId))
  /\ AutoSave(DeletedFrom(Val(invoice), itemId))
  /\ UNCHANGED <<screen, selectedCustomer, merchantConfig, frequentCustomers,
                 editingItem, generatedPdfBlob, shareError, customersStore, productsStore,
                 invoicesStore, configStore, cacheStore, cacheTimeStore,
                 sheetVars, catalogVars, outside, now,
                 pendingShare, pendingReaders, pendingResets>>

\* saveItem's two early returns taken together: the input is turned down
Rejected(itemProductName, itemPrice, itemQuantity) ==
  LET price    == parseFloat(itemPrice)
      quantity == parseFloat(itemQuantity)
  IN  \/ trim(itemProductName) = <<>>
      \/ isNaN(price) \/ Less(price, Num(0))
      \/ isNaN(quantity) \/ LessEq(quantity, Num(0))

\* an edit branch that maps over the items without comparing their ids
EditedInvoiceEveryItem(inv, editing, itemProductName, itemPrice, itemQuantity, itemUnit) ==
  LET updatedLineItems ==
        [i \in 1..Len(inv.lineItems) |->
           [inv.lineItems[i] EXCEPT !.productName = trim(itemProductName),
                                    !.unitPrice = parseFloat(itemPrice),
                                    !.quantity = parseFloat(itemQuantity),
                                    !.unit = itemUnit]]
  IN  [inv EXCEPT !.lineItems = updatedLineItems,
                  !.subtotal = calculateSubtotal(updatedLineItems),
                  !.total = calculateTotal(updatedLineItems)]

\* saveItem, edit branch: the new invoice
EditedInvoice(inv, editing, itemProductName, itemPrice, itemQuantity, itemUnit) ==
  LET updatedLineItems ==
        [i \in 1..Len(inv.lineItems) |->
           IF inv.lineItems[i].id = editing.id
           THEN [inv.lineItems[i] EXCEPT !.productName = trim(itemProductName),
                                         !.unitPrice = parseFloat(itemPrice),
                                         !.quantity = parseFloat(itemQuantity),
                                         !.unit = itemUnit]
           ELSE inv.lineItems[i]]
  IN  [inv EXCEPT !.lineItems = updatedLineItems,
                  !.subtotal = calculateSubtotal(updatedLineItems),
                  !.total = calculateTotal(updatedLineItems)]

\* an add branch that puts the new item first
AddedInvoiceFirst(inv, id, itemProductName, itemPrice, itemQuantity, itemUnit) ==
  LET lineItem == [id |-> id,
                   productName |-> trim(itemProductName),
                   unitPrice |-> parseFloat(itemPrice),
                   quantity |-> parseFloat(itemQuantity),
                   unit |-> itemUnit]
      updatedLineItems == <<lineItem>> \o inv.lineItems
  IN  [inv EXCEPT !.lineItems = updatedLineItems,
                  !.subtotal = calculateSubtotal(updatedLineItems),
                  !.total = calculateTotal(updatedLineItems)]

\* saveItem, add branch: the new invoice
AddedInvoice(inv, id, itemProductName, itemPrice, itemQuantity, itemUnit) ==
  LET lineItem == [id |-> id,
                   productName |-> trim(itemProductName),
                   unitPrice |-> parseFloat(itemPrice),
                   quantity |-> parseFloat(itemQuantity),
                   unit |-> itemUnit]
      updatedLineItems == Append(inv.lineItems, lineItem)
  IN  [inv EXCEPT !.lineItems = updatedLineItems,
                  !.subtotal = calculateSubtotal(updatedLineItems),
                  !.total = calculateTotal(updatedLineItems)]

\* products.find(p => p.name.toLowerCase() === itemProductName.trim().toLowerCase()):
\* its index in the products state, 0 when there is none
ExistingProduct(itemProductName) ==
  IndexOf(products, LAMBDA p : toLowerCase(p.name) = toLowerCase(trim(itemProductName)))

\* a catalog update that stores the sheet product it finds in the list
CatalogAfterAddKeepingRemote(itemProductName, itemPrice, itemUnit) ==
  LET existing == ExistingProduct(itemProductName)
  IN  IF existing > 0
      THEN IF products[existing].id \in Ids(getProducts)
           THEN saveToStorage(ProductsJson(incrementProductUsage(getProducts,
                                                                 products[existing].id)))
           ELSE saveToStorage(ProductsJson(saveProduct(getProducts,
                  [products[existing] EXCEPT !.usageCount = 1])))
      ELSE saveToStorage(ProductsJson(saveProduct(getProducts,
             [id |-> generateId("product"),
              name |-> trim(itemProductName),
              price |-> parseFloat(itemPrice),
              unit |-> itemUnit,
              defaultQuantity |-> None,
              usageCount |-> 1,
              fromSheet |-> FALSE])))

\* saveItem, add branch, "Save to catalog if new": the products key afterwards
CatalogAfterAdd(itemProductName, itemPrice, itemUnit) ==
  LET existing == ExistingProduct(itemProductName)
  IN  IF existing > 0
      THEN IF products[existing].id \in Ids(getProducts)
           THEN saveToStorage(ProductsJson(incrementProductUsage(getProducts,
                                                                 products[existing].id)))
           ELSE productsStore
      ELSE saveToStorage(ProductsJson(saveProduct(getProducts,
             [id |-> generateId("product"),
              name |-> trim(itemProductName),
              price |-> parseFloat(itemPrice),
              unit |-> itemUnit,
              defaultQuantity |-> None,
              usageCount |-> 1,
              fromSheet |-> FALSE])))

\* the bounds leave room for what saveItem's add branch writes to the catalog
CatalogHasRoom(itemProductName) ==
  LET existing == ExistingProduct(itemProductName)
  IN  IF existing > 0
      THEN \A i \in 1..Len(getProducts) :
             getProducts[i].id = products[existing].id => getProducts[i].usageCount < MaxUsage
      ELSE Len(getProducts) < MaxProducts

saveItemCountingEdits(itemProductName, itemPrice, itemQuantity, itemUnit) ==
  /\ Interactive
  /\ screen = "add-item"
  /\ IF Rejected(itemProductName, itemPrice, itemQuantity)
     THEN UNCHANGED vars
     ELSE IF IsSome(editingItem)
     THEN LET inv == EditedInvoice(Val(invoice), Val(editingItem), itemProductName,
                                   itemPrice, itemQuantity, itemUnit)
          IN  /\ invoice' = Some(inv)
              /\ AutoSave(inv)
              /\ productsStore' = CatalogAfterAdd(itemProductName, itemPrice, itemUnit)
              /\ screen' = "items"
              /\ UNCHANGED <<selectedCustomer, merchantConfig, frequentCustomers,
                             editingItem, generatedPdfBlob, shareError,
                             customersStore, invoicesStore, configStore,
                             cacheStore, cacheTimeStore, sheetVars, catalogVars,
                             outside, now, pendingShare, pendingReaders, pendingResets>>
     ELSE LET inv == AddedInvoice(Val(invoice), generateId("item"), itemProductName,
                                  itemPrice, itemQuantity, itemUnit)
          IN  /\ Len(Val(invoice).lineItems) < MaxItems
              /\ CatalogHasRoom(itemProductName)
              /\ invoice' = Some(inv)
              /\ AutoSave(inv)
              /\ productsStore' = CatalogAfterAdd(itemProductName, itemPrice, itemUnit)
              /\ LoadProducts(getFromStorage(productsStore', <<>>), cachedProducts,
                              lastFetchTime, pendingFetches, "setProducts")
              /\ screen' = "items"
              /\ UNCHANGED <<selectedCustomer, merchantConfig, frequentCustomers,
                             editingItem, generatedPdfBlob, shareError,
                             customersStore, invoicesStore, configStore,
                             cacheStore, cacheTimeStore, sheetVars, outside, now,
                             pendingShare, pendingReaders, pendingResets>>

\* saveItem: the Add Item / Update Item button, with the form's four fields
saveItem(itemProductName, itemPrice, itemQuantity, itemUnit) ==
  /\ Interactive
  /\ screen = "add-item"
  /\ IF Rejected(itemProductName, itemPrice, itemQuantity)
     THEN UNCHANGED vars
     ELSE IF IsSome(editingItem)
     THEN LET inv == EditedInvoice(Val(invoice), Val(editingItem), itemProductName,
                                   itemPrice, itemQuantity, itemUnit)
          IN  /\ invoice' = Some(inv)
              /\ AutoSave(inv)
              /\ screen' = "items"
              /\ UNCHANGED <<selectedCustomer, merchantConfig, frequentCustomers,
                             editingItem, generatedPdfBlob, shareError,
                             customersStore, productsStore, invoicesStore, configStore,
                             cacheStore, cacheTimeStore, sheetVars, catalogVars,
                             outside, now, pendingShare, pendingReaders, pendingResets>>
     ELSE LET inv == AddedInvoice(Val(invoice), generateId("item"), itemProductName,
                                  itemPrice, itemQuantity, itemUnit)
          IN  /\ Len(Val(invoice).lineItems) < MaxItems
              /\ CatalogHasRoom(itemProductName)
              /\ invoice' = Some(inv)
              /\ AutoSave(inv)
              /\ productsStore' = CatalogAfterAdd(itemProductName, itemPrice, itemUnit)
              /\ LoadProducts(getFromStorage(productsStore', <<>>), cachedProducts,
                              lastFetchTime, pendingFetches, "setProducts")
              /\ screen' = "items"
              /\ UNCHANGED <<selectedCustomer, merchantConfig, frequentCustomers,
                             editingItem, generatedPdfBlob, shareError,
                             customersStore, invoicesStore, configStore,
                             cacheStore, cacheTimeStore, sheetVars, outside, now,
                             pendingShare, pendingReaders, pendingResets>>

(***************************************************************************)
(* Generate and share                                                      *)
(***************************************************************************)
\* a catch of handleGenerateInvoice that records nothing
NoGenerationError == ""

\* what the catch of handleGenerateInvoice passes to setShareError
GenerationError == "Couldn't generate invoice. Try again."

\* a handleGenerateInvoice without its first line
handleGenerateInvoiceUnguarded(ok) ==
  /\ Interactive
  /\ screen = "items"
  /\ IF ok
     THEN /\ generatedPdfBlob' = Some(Val(invoice).id)
          /\ shareError' = ""
          /\ screen' = "share"
     ELSE /\ shareError' = GenerationError
          /\ UNCHANGED <<generatedPdfBlob, screen>>
  /\ shareSettled' = None
  /\ UNCHANGED <<invoice, selectedCustomer, merchantConfig, frequentCustomers, products,
                 editingItem, storeVars, sheetVars, loaded, SHEET_ID, pdf, invalidatedAt,
                 now, pendingVars>>

\* handleGenerateInvoice, from the items screen; it returns at once without
\* a customer or without line items; generateInvoicePDF returns a document
\* (ok) or throws
handleGenerateInvoice(ok) ==
  /\ Interactive
  /\ screen = "items"
  /\ IF selectedCustomer = None \/ Len(Val(invoice).lineItems) = 0
     THEN UNCHANGED vars
     ELSE /\ IF ok
             THEN /\ generatedPdfBlob' = Some(Val(invoice).id)
                  /\ shareError' = ""
                  /\ screen' = "share"
             ELSE /\ shareError' = GenerationError
                  /\ UNCHANGED <<generatedPdfBlob, screen>>
          /\ shareSettled' = None
          /\ UNCHANGED <<invoice, selectedCustomer, merchantConfig, frequentCustomers,
                         products, editingItem, storeVars, sheetVars, loaded, SHEET_ID,
                         pdf, invalidatedAt, now, pendingVars>>

\* what a handler of the share screen holds in its closure, and what led to
\* the finalization it asks for
Closure(cause) ==
  [invoice |-> invoice, selectedCustomer |-> selectedCustomer,
   generatedPdfBlob |-> generatedPdfBlob, cause |-> cause]

\* finalizeInvoiceAndReset up to reader.readAsDataURL: the readers waiting
\* afterwards
ReadersAfterFinalize(c) ==
  IF IsSome(c.invoice) /\ IsSome(c.selectedCustomer) /\ IsSome(c.generatedPdfBlob)
  THEN Append(pendingReaders, c)
  ELSE pendingReaders

\* downloadPDF called with the closure c: the readers waiting afterwards
ReadersAfterDownload(c) ==
  IF IsSome(c.generatedPdfBlob) /\ IsSome(c.invoice)
  THEN ReadersAfterFinalize(c)
  ELSE pendingReaders

\* finalizations begun and not yet followed by their reset
Unfinished ==
  Len(pendingReaders) + pendingResets + (IF IsSome(pendingShare) THEN 1 ELSE 0)

\* the Download PDF button
downloadPDF ==
  /\ Interactive
  /\ screen = "share"
  /\ Unfinished < MaxPending
  /\ Len(getInvoices) + Unfinished < MaxHistory
  /\ pendingReaders' = ReadersAfterDownload(Closure("download"))
  /\ UNCHANGED <<reactVars, storeVars, sheetVars, loaded, outside, now,
                 pendingFetches, pendingShare, pendingResets>>

\* handleShareWhatsApp (via = "whatsapp") and handleShareOther (via = "other")
\* up to the await of navigator.share; without navigator.share the handler
\* falls back to downloadPDF
handleShare(via, canShare) ==
  /\ Interactive
  /\ screen = "share"
  /\ Unfinished < MaxPending
  /\ Len(getInvoices) + Unfinished < MaxHistory
  /\ IsSome(generatedPdfBlob)
  /\ via = "whatsapp" => IsSome(selectedCustomer)
  /\ IF canShare
     THEN /\ pendingShare' = Some([via |-> via, closure |-> Closure("shared")])
          /\ UNCHANGED pendingReaders
     ELSE /\ pendingReaders' = ReadersAfterDownload(Closure("download"))
          /\ UNCHANGED pendingShare
  /\ shareSettled' = None
  /\ UNCHANGED <<reactVars, storeVars, sheetVars, loaded, SHEET_ID, pdf,
                 invalidatedAt, now, pendingFetches, pendingResets>>

\* share handlers whose catch does not look at the name of the error
shareSettlesAbortAsFailure(outcome) ==
  /\ IsSome(pendingShare)
  /\ pendingShare' = None
  /\ LET via == Val(pendingShare).via
         c   == Val(pendingShare).closure
     IN  CASE outcome = "shared" ->
                /\ pendingReaders' = ReadersAfterFinalize(c)
                /\ UNCHANGED shareError
           [] outcome \in {"AbortError", "error"} /\ via = "whatsapp" ->
                /\ shareError' = "Share failed. Try again."
                /\ UNCHANGED pendingReaders
           [] outcome \in {"AbortError", "error"} /\ via = "other" ->
                /\ pendingReaders' = ReadersAfterDownload([c EXCEPT !.cause = "error"])
                /\ UNCHANGED shareError
  /\ shareSettled' = Some([via |-> Val(pendingShare).via, outcome |-> outcome])
  /\ UNCHANGED <<screen, invoice, selectedCustomer, merchantConfig, frequentCustomers,
                 products, editingItem, generatedPdfBlob, storeVars, sheetVars,
                 loaded, SHEET_ID, pdf, invalidatedAt, now, pendingFetches,
                 pendingResets>>

\* navigator.share settles: "shared", "AbortError" (the user cancelled) or
\* "error" (any other rejection)
shareSettles(outcome) ==
  /\ IsSome(pendingShare)
  /\ pendingShare' = None
  /\ LET via == Val(pendingShare).via
         c   == Val(pendingShare).closure
     IN  CASE outcome = "shared" ->
                /\ pendingReaders' = ReadersAfterFinalize(c)
                /\ UNCHANGED shareError
           [] outcome = "AbortError" ->
                UNCHANGED <<pendingReaders, shareError>>
           [] outcome = "error" /\ via = "whatsapp" ->
                /\ shareError' = "Share failed. Try again."
                /\ UNCHANGED pendingReaders
           [] outcome = "error" /\ via = "other" ->
                /\ pendingReaders' = ReadersAfterDownload([c EXCEPT !.cause = "error"])
                /\ UNCHANGED shareError
  /\ shareSettled' = Some([via |-> Val(pendingShare).via, outcome |-> outcome])
  /\ UNCHANGED <<screen, invoice, selectedCustomer, merchantConfig, frequentCustomers,
                 products, editingItem, generatedPdfBlob, storeVars, sheetVars,
                 loaded, SHEET_ID, pdf, invalidatedAt, now, pendingFetches,
                 pendingResets>>

\* reader.onloadend of finalizeInvoiceAndReset: history, customer usage,
\* draft key, and the timer of the reset
readerLoadEnd ==
  /\ pendingReaders # <<>>
  /\ Len(getInvoices) < MaxHistory
  /\ LET c == Head(pendingReaders)
         finalInvoice == [Val(c.invoice) EXCEPT !.isDraft = FALSE,
                                                !.generatedPdfBlob = c.generatedPdfBlob]
         customers == getCustomers
     IN  /\ invoicesStore' = saveToStorage(Append(getInvoices, InvoiceJson(finalInvoice)))
         /\ customersStore' =
              IF Val(c.selectedCustomer).id \in Ids(customers)
              THEN saveToStorage(incrementCustomerUsage(customers, Val(c.selectedCustomer).id))
              ELSE customersStore
  /\ draftStore' = None
  /\ pendingReaders' = Tail(pendingReaders)
  /\ pendingResets' = pendingResets + 1
  /\ UNCHANGED <<reactVars, productsStore, configStore, cacheStore, cacheTimeStore,
                 sheetVars, loaded, outside, now, pendingFetches, pendingShare>>

\* the timer set by reader.onloadend: a new empty draft
resetTimer ==
  /\ pendingResets > 0
  /\ LET newInvoice == NewInvoice(generateId("invoice"))
     IN  /\ invoice' = Some(newInvoice)
         /\ AutoSave(newInvoice)
  /\ selectedCustomer' = None
  /\ generatedPdfBlob' = None
  /\ screen' = "customer-selection"
  /\ pendingResets' = pendingResets - 1
  /\ shareSettled' = None
  /\ UNCHANGED <<merchantConfig, frequentCustomers, products, editingItem, shareError,
                 customersStore, productsStore, invoicesStore, configStore,
                 cacheStore, cacheTimeStore, sheetVars, loaded, SHEET_ID, pdf,
                 invalidatedAt, now,
                 pendingFetches, pendingShare, pendingReaders>>

(***************************************************************************)
(* Settings                                                                *)
(***************************************************************************)
openSettings ==
  /\ Interactive
  /\ screen = "customer-selection"
  /\ screen' = "settings"
  /\ UNCHANGED <<invoice, selectedCustomer, merchantConfig, frequentCustomers, products,
                 editingItem, generatedPdfBlob, shareError, storeVars, sheetVars,
                 loaded, outside, now, pendingVars>>

cancelSettings ==
  /\ Interactive
  /\ screen = "settings"
  /\ screen' = "customer-selection"
  /\ UNCHANGED <<invoice, selectedCustomer, merchantConfig, frequentCustomers, products,
                 editingItem, generatedPdfBlob, shareError, storeVars, sheetVars,
                 loaded, outside, now, pendingVars>>

\* handleSaveConfig with the sheet id field of the form; the products are
\* loaded again when the field differs from the saved configuration, and the
\* handler leaves the settings screen after that
handleSaveConfig(googleSheetId) ==
  /\ Interactive
  /\ screen = "settings"
  /\ IsSome(merchantConfig)
  /\ LET editingConfig  == [Val(merchantConfig) EXCEPT !.googleSheetId = googleSheetId]
         sheetIdChanged == googleSheetId # Val(merchantConfig).googleSheetId
     IN  /\ configStore' = saveToStorage(editingConfig)
         /\ merchantConfig' = Some(editingConfig)
         /\ IF sheetIdChanged
            THEN /\ LoadProducts(getProducts, cachedProducts, lastFetchTime,
                                 pendingFetches, "saveConfig")
                 /\ screen' = IF FetchDecision(cachedProducts, lastFetchTime) = "fetch"
                              THEN screen ELSE "customer-selection"
            ELSE /\ screen' = "customer-selection"
                 /\ UNCHANGED catalogVars
  /\ UNCHANGED <<invoice, selectedCustomer, frequentCustomers, editingItem,
                 generatedPdfBlob, shareError, draftStore, customersStore, productsStore,
                 invoicesStore, cacheStore, cacheTimeStore, sheetVars, outside, now,
                 pendingShare, pendingReaders, pendingResets>>

(***************************************************************************)
(* The network and the clock                                               *)
(***************************************************************************)
RemoveAt(seq, i) == SubSeq(seq, 1, i - 1) \o SubSeq(seq, i + 1, Len(seq))

\* the fetch of the i-th waiting getAllProducts call settles: with the sheet's
\* CSV text (outcome "ok"), with a response that is not ok ("http-error") or
\* with a rejection ("network-error"); then the merge and the caller's then
fetchSettles(i, outcome, csvText) ==
  /\ i \in 1..Len(pendingFetches)
  /\ LET call   == pendingFetches[i]
         parsed == parseCSV(csvText, UsedIds("product"))
         sheetProducts ==
           IF outcome = "ok" THEN parsed
           ELSE IF IsSome(cachedProducts) THEN Val(cachedProducts) ELSE <<>>
     IN  /\ IF outcome = "ok"
            THEN /\ cachedProducts' = Some(parsed)
                 /\ lastFetchTime' = now
                 /\ cacheStore' = saveToStorage(ProductsJson(parsed))
                 /\ cacheTimeStore' = saveToStorage(IntToText(now))
            ELSE UNCHANGED <<cachedProducts, lastFetchTime, cacheStore, cacheTimeStore>>
         /\ loaded' = Returned(IF outcome = "ok" THEN "fetched" ELSE "fallback",
                               sheetProducts, call.manualProducts, call.startedAt,
                               lastFetchTime')
         /\ products' = MergeProducts(sheetProducts, call.manualProducts)
         /\ screen' = IF call.then = "saveConfig" THEN "customer-selection" ELSE screen
  /\ pendingFetches' = RemoveAt(pendingFetches, i)
  /\ UNCHANGED <<invoice, selectedCustomer, merchantConfig, frequentCustomers,
                 editingItem, generatedPdfBlob, shareError, draftStore, customersStore,
                 productsStore, invoicesStore, configStore, outside, now,
                 pendingShare, pendingReaders, pendingResets>>

\* clearProductCache, the manual refresh the sheets module exports
clearProductCache ==
  /\ cachedProducts' = None
  /\ lastFetchTime' = 0
  /\ cacheStore' = None
  /\ cacheTimeStore' = None
  /\ invalidatedAt' = Some(now)
  /\ UNCHANGED <<reactVars, draftStore, customersStore, productsStore, invoicesStore,
                 configStore, loaded, SHEET_ID, pdf, shareSettled, now, pendingVars>>

\* the text under a key of the store is damaged and no longer parses; the
\* model lets it happen between two invoices, while the page waits for a
\* customer
corruptKey(key) ==
  LET Damaged(item) == <<item[1], item[1]>>
  IN  /\ screen = "customer-selection"
      /\ selectedCustomer = None
      /\ pendingReaders = <<>>
      /\ pendingResets = 0
      /\ CASE key = "customers" ->
                /\ Len(customersStore) = 1
                /\ customersStore' = Damaged(customersStore)
                /\ UNCHANGED <<productsStore, draftStore, invoicesStore, configStore>>
           [] key = "products" ->
                /\ Len(productsStore) = 1
                /\ productsStore' = Damaged(productsStore)
                /\ UNCHANGED <<customersStore, draftStore, invoicesStore, configStore>>
           [] key = "draft" ->
                /\ Len(draftStore) = 1
                /\ draftStore' = Damaged(draftStore)
                /\ UNCHANGED <<customersStore, productsStore, invoicesStore, configStore>>
           [] key = "invoices" ->
                /\ Len(invoicesStore) = 1
                /\ invoicesStore' = Damaged(invoicesStore)
                /\ UNCHANGED <<customersStore, productsStore, draftStore, configStore>>
           [] key = "config" ->
                /\ Len(configStore) = 1
                /\ configStore' = Damaged(configStore)
                /\ UNCHANGED <<customersStore, productsStore, draftStore, invoicesStore>>
      /\ UNCHANGED <<reactVars, cacheStore, cacheTimeStore, sheetVars, loaded, outside,
                     now, pendingVars>>

\* time passes
tick(d) ==
  /\ now + d <= MaxNow
  /\ now' = now + d
  /\ UNCHANGED <<reactVars, storeVars, sheetVars, loaded, outside, pendingVars>>

(***************************************************************************)
(* generateInvoicePDF: the cursor of the document it draws.  Lengths are   *)
(* hundredths of a millimetre; the number of lines splitTextToSize cuts a  *)
(* text into is an input of each step.                                     *)
(***************************************************************************)
\* the height of an A4 page in portrait
pageHeight == 29700

margin == 1500

\* lineHeight = fontSize * 0.35
lineHeight(fontSize) == fontSize * 35

\* addText's return value for a text of so many lines drawn from y, its
\* lines on the baselines y, y + lineHeight, ...
addText(y, lines, fontSize) == y + lines * lineHeight(fontSize)

\* the baseline of the last line addText draws
LastBaseline(y, lines, fontSize) == y + (lines - 1) * lineHeight(fontSize)

\* a check that never starts a page
checkPageBreakNever(doc, requiredSpace) == doc

checkPageBreak(doc, requiredSpace) ==
  IF doc.yPosition + requiredSpace > pageHeight - margin
  THEN [doc EXCEPT !.page = @ + 1, !.yPosition = margin]
  ELSE doc

\* yPosition where the first line item is drawn: title, number, date,
\* customer block and table header above it
HeaderEnd(nameLines, phoneLines, addressLines) ==
  LET title    == addText(margin, 1, 24) + 800
      number   == addText(title, 1, 10) + 500
      date     == addText(number, 1, 10) + 1000
      billTo   == addText(date + 800, 1, 10) + 500
      name     == addText(billTo, nameLines, 11) + 400
      phone    == IF phoneLines > 0 THEN addText(name, phoneLines, 10) + 400 ELSE name
      address  == IF addressLines > 0 THEN addText(phone, addressLines, 10) + 400
                  ELSE phone
      table    == address + 600 + 600
  IN  addText(table, 1, 10) + 500 + 600

\* generateInvoicePDF up to the line items loop
drawHeader(nameLines, phoneLines, addressLines) ==
  /\ pdf.phase \in {"none", "done"}
  /\ pdf' = [phase |-> "items", page |-> 1,
             yPosition |-> HeaderEnd(nameLines, phoneLines, addressLines),
             rows |-> 0, row |-> None, totals |-> None]
  /\ UNCHANGED <<reactVars, storeVars, sheetVars, loaded, SHEET_ID, invalidatedAt,
                 shareSettled, now, pendingVars>>

\* one round of the line items loop, for an item whose name has so many lines
drawLineItem(lines) ==
  /\ pdf.phase = "items"
  /\ pdf.rows < MaxRows
  /\ LET doc   == checkPageBreak(pdf, 1500)
         itemY == addText(doc.yPosition, lines, 10)
     IN  pdf' = [doc EXCEPT !.yPosition = itemY + 500,
                            !.rows = @ + 1,
                            !.row = Some([page |-> doc.page, top |-> doc.yPosition,
                                          lines |-> lines])]
  /\ UNCHANGED <<reactVars, storeVars, sheetVars, loaded, SHEET_ID, invalidatedAt,
                 shareSettled, now, pendingVars>>

\* generateInvoicePDF after the loop: totals and footer; totals keeps where
\* they were drawn: the baselines of "Subtotal:" and "TOTAL:", the lower
\* edge of the grey box behind the total, the rule and the text of the footer
drawTotals ==
  /\ pdf.phase = "items"
  /\ LET ruled    == [pdf EXCEPT !.yPosition = @ + 400 + 800]
         totals   == checkPageBreak(ruled, 3000)
         subtotal == addText(totals.yPosition, 1, 11) + 800
         total    == addText(subtotal, 1, 14) + 1500
         footer   == checkPageBreak([totals EXCEPT !.yPosition = total], 2000)
         low      == pageHeight - margin - 2000
         rule     == IF footer.yPosition > low THEN footer.yPosition ELSE low
     IN  pdf' = [footer EXCEPT !.phase = "done",
                               !.yPosition = rule + 600,
                               !.totals = Some([subtotalPage |-> totals.page,
                                                subtotalY |-> totals.yPosition,
                                                totalPage |-> totals.page,
                                                totalY |-> subtotal,
                                                boxBottom |-> subtotal - 600 + 1200,
                                                footerPage |-> footer.page,
                                                ruleY |-> rule,
                                                footerY |-> rule + 600])]
  /\ UNCHANGED <<reactVars, storeVars, sheetVars, loaded, SHEET_ID, invalidatedAt,
                 shareSettled, now, pendingVars>>

(***************************************************************************)
(* Inputs                                                                  *)
(***************************************************************************)
Kg == <<"k", "g">>

Piece == <<"p", "i", "e", "c", "e">>

Ravi == <<"R", "a", "v", "i">>

CsvHeader == <<<<"N", "a", "m", "e">>, <<"P", "r", "i", "c", "e">>, <<"U", "n", "i", "t">>>>

MILK == <<"M", "I", "L", "K">>

\* a sheet with one product
SheetOfMilk == CsvText(<<CsvHeader, <<Milk, T50, <<"K", "g">>, THalf>>>>)

\* a sheet with another product
SheetOfPaneer == CsvText(<<CsvHeader, <<Paneer, T500, Kg, T1>>>>)

\* a sheet that lists a product twice, the second time in capitals, after a
\* row without a price
SheetOfMilkTwice ==
  CsvText(<<CsvHeader, <<Paneer, TWord, Kg>>, <<Milk, T50, Kg>>, <<MILK, T500, Kg>>>>)

\* what the user may type as search text, phone and address of a new customer
CustomerInputs ==
  {<<Blank, <<>>, <<>>>>, <<Asha, Phone98, <<>>>>, <<Ravi, <<>>, Pune>>}

SheetIdInputs == {None, Some("sheet"), Some("other")}

FetchOutcomes == {"ok", "http-error", "network-error"}

ShareOutcomes == {"shared", "AbortError", "error"}

\* steps of the clock: one millisecond short of the cache duration, and the
\* cache duration
TickSteps == {CACHE_DURATION - 1, CACHE_DURATION}

(***************************************************************************)
(* Steps, over the inputs a specification offers                           *)
(***************************************************************************)
CustomerStep(customerInputs) ==
  \/ \E i \in 1..MaxCustomers : selectExistingCustomer(i)
  \/ \E c \in customerInputs : addNewCustomerInline(c[1], c[2], c[3])
  \/ changeCustomer

ItemStep(names, prices, quantities, units) ==
  \/ openAddItem
  \/ \E i \in 1..MaxItems : openEditItem(i)
  \/ cancelAddItem
  \/ \E i \in 1..MaxItems :
       /\ IsSome(invoice)
       /\ i <= Len(Val(invoice).lineItems)
       /\ deleteItem(Val(invoice).lineItems[i].id)
  \/ \E n \in names, p \in prices, q \in quantities, u \in units : saveItem(n, p, q, u)

ShareStep ==
  \/ \E ok \in BOOLEAN : handleGenerateInvoice(ok)
  \/ downloadPDF
  \/ \E via \in {"whatsapp", "other"}, canShare \in BOOLEAN : handleShare(via, canShare)
  \/ \E outcome \in ShareOutcomes : shareSettles(outcome)
  \/ readerLoadEnd
  \/ resetTimer

SettingsStep ==
  \/ openSettings
  \/ cancelSettings
  \/ \E g \in SheetIdInputs : handleSaveConfig(g)

NetworkStep(sheetTexts) ==
  \E i \in 1..MaxPending, outcome \in FetchOutcomes, csvText \in sheetTexts :
    fetchSettles(i, outcome, csvText)

ClockStep == \E d \in TickSteps : tick(d)

(***************************************************************************)
(* SpecItems: one customer, the line items of a draft, numbers of every    *)
(* kind in the form                                                        *)
(***************************************************************************)
ItemNames == {Blank, Milk}

ItemPrices == {T0, T50, T500, TMinus5, InfinityText, TWord}

ItemQuantities == {T0, T1, THalf, InfinityText, TWord}

NextItems ==
  \/ Initialize
  \/ addNewCustomerInline(Asha, Phone98, <<>>)
  \/ ItemStep(ItemNames, ItemPrices, ItemQuantities, {Kg})

SpecItems == InitWithoutSheet /\ [][NextItems]_vars

(***************************************************************************)
(* Spec: the life of a draft, from the first start of the page through     *)
(* customers, items, sharing and the reset, with restarts at any point     *)
(***************************************************************************)
ProductNames == {Blank, Milk}

Prices == {T50, TMinus5}

Quantities == {T1}

Units == {Kg, Piece}

Next ==
  \/ Initialize
  \/ CustomerStep(CustomerInputs)
  \/ ItemStep(ProductNames, Prices, Quantities, Units)
  \/ ShareStep

\* the build has no sheet id: every getAllProducts call returns at once
Spec == InitWithoutSheet /\ [][Next]_vars

(***************************************************************************)
(* SpecCatalog: the products of the sheet and of the products key, the     *)
(* cache and the clock                                                     *)
(***************************************************************************)
CatalogNames == {Milk, milk}

CatalogSheets == {SheetOfMilk, SheetOfPaneer, SheetOfMilkTwice}

NextCatalog ==
  \/ Initialize
  \/ addNewCustomerInline(Asha, Phone98, <<>>)
  \/ openAddItem
  \/ \E n \in CatalogNames : saveItem(n, T50, T1, Kg)
  \/ NetworkStep(CatalogSheets)
  \/ ClockStep

SpecCatalog == Init /\ [][NextCatalog]_vars

(***************************************************************************)
(* SpecSource: the settings screen and the sheet: the configured sheet id, *)
(* the cache, fetches in flight and the clock                              *)
(***************************************************************************)
SourceSheets == {SheetOfMilk, SheetOfPaneer}

NextSource ==
  \/ Initialize
  \/ SettingsStep
  \/ NetworkStep(SourceSheets)
  \/ clearProductCache
  \/ ClockStep

SpecSource == Init /\ [][NextSource]_vars

(***************************************************************************)
(* SpecPdf: documents of up to MaxRows line items, drawn one after another *)
(***************************************************************************)
NameLines == {1, 2}

PhoneLines == {0, 1}

AddressLines == {0, 1, 3}

\* lines a product name takes in the item column
RowLines == {1, 2, 6}

NextPdf ==
  \/ \E n \in NameLines, p \in PhoneLines, a \in AddressLines : drawHeader(n, p, a)
  \/ \E lines \in RowLines : drawLineItem(lines)
  \/ drawTotals

SpecPdf == Init /\ [][NextPdf]_vars

(***************************************************************************)
(* SpecStore: one customer, one item, the settings, delivery by download,  *)
(* restarts, and keys of the store whose text gets damaged                 *)
(***************************************************************************)
STORAGE_KEYS == {"customers", "products", "draft", "invoices", "config"}

NextStore ==
  \/ Initialize
  \/ addNewCustomerInline(Asha, Phone98, <<>>)
  \/ openAddItem
  \/ saveItem(Milk, T50, T1, Kg)
  \/ handleGenerateInvoice(TRUE)
  \/ downloadPDF
  \/ readerLoadEnd
  \/ resetTimer
  \/ openSettings
  \/ handleSaveConfig(Some("sheet"))
  \/ \E key \in STORAGE_KEYS : corruptKey(key)

SpecStore == InitWithoutSheet /\ [][NextStore]_vars

(***************************************************************************)
(* SpecLocals: no sheet; one customer, items of two product names added    *)
(* and deleted, restarts                                                   *)
(***************************************************************************)
LocalNames == {Milk, Paneer}

NextLocals ==
  \/ Initialize
  \/ addNewCustomerInline(Asha, Phone98, <<>>)
  \/ openAddItem
  \/ \E n \in LocalNames : saveItem(n, T50, T1, Kg)
  \/ \E i \in 1..MaxItems :
       /\ IsSome(invoice)
       /\ i <= Len(Val(invoice).lineItems)
       /\ deleteItem(Val(invoice).lineItems[i].id)

SpecLocals == InitWithoutSheet /\ [][NextLocals]_vars

(***************************************************************************)
(* SpecLines: no sheet; one customer, items of two product names added,    *)
(* edited and deleted, restarts                                            *)
(***************************************************************************)
\* the identities a delete is asked for: those of the items and one more
ItemIds == 1..(MaxItems + 1)

NextLines ==
  \/ Initialize
  \/ addNewCustomerInline(Asha, Phone98, <<>>)
  \/ openAddItem
  \/ \E i \in 1..MaxItems : openEditItem(i)
  \/ \E n \in LocalNames, p \in {T50, T500} : saveItem(n, p, T1, Kg)
  \/ \E id \in ItemIds : deleteItem(id)

SpecLines == InitWithoutSheet /\ [][NextLines]_vars

(***************************************************************************)
(* SpecParse: sheets of up to MaxSheetRows rows of every kind, fetched     *)
(***************************************************************************)
\* rows of a sheet: a product, a negative price, a price that is no number,
\* a row of two fields, an infinite price
RowSamples ==
  {<<Milk, T50, Kg>>, <<Paneer, TMinus5, Kg>>, <<Milk, TWord, Kg>>, <<Paneer, T500>>,
   <<Paneer, InfinityText, Kg>>}

\* the rows below the header of a sheet
SheetRows == UNION {[1..n -> RowSamples] : n \in 0..MaxSheetRows}

ParseSheets == {CsvText(<<CsvHeader>> \o rows) : rows \in SheetRows}

NextParse ==
  \/ Initialize
  \/ NetworkStep(ParseSheets)
  \/ ClockStep

SpecParse == Init /\ [][NextParse]_vars

(***************************************************************************)
(* SpecDelivery: one session of the page from its start, with no restart:  *)
(* customers, one kind of item, generation, every way of sharing.  The     *)
(* browser runs a FileReader's onloadend and a timer's callback once they  *)
(* are due, hence the weak fairness of readerLoadEnd and resetTimer.       *)
(***************************************************************************)
\* the start of the session
Launch == invoice = None /\ Initialize

NextDelivery ==
  \/ Launch
  \/ addNewCustomerInline(Asha, Phone98, <<>>)
  \/ \E i \in 1..MaxCustomers : selectExistingCustomer(i)
  \/ openAddItem
  \/ saveItem(Milk, T50, T1, Kg)
  \/ ShareStep

SpecDelivery ==
  /\ InitWithoutSheet
  /\ [][NextDelivery]_vars
  /\ WF_vars(readerLoadEnd)
  /\ WF_vars(resetTimer)

(***************************************************************************)
(* SpecReload: one customer and one product name; the draft is edited,     *)
(* generated and delivered while fetches of the sheet, started by the      *)
(* start of the page or by an added item, wait; one download, of the first *)
(* invoice of the history                                                  *)
(***************************************************************************)
NextReload ==
  \/ Launch
  \/ addNewCustomerInline(Asha, Phone98, <<>>)
  \/ \E i \in 1..MaxCustomers : selectExistingCustomer(i)
  \/ changeCustomer
  \/ openAddItem
  \/ \E i \in 1..MaxItems : openEditItem(i)
  \/ saveItem(Milk, T50, T1, Kg)
  \/ \E id \in ItemIds : deleteItem(id)
  \/ handleGenerateInvoice(TRUE)
  \/ (Unfinished = 0 /\ getInvoices = <<>> /\ downloadPDF)
  \/ readerLoadEnd
  \/ resetTimer
  \/ \E i \in 1..MaxPending : fetchSettles(i, "ok", SheetOfMilk)

SpecReload == Init /\ [][NextReload]_vars

(***************************************************************************)
(* SpecSettings: the settings are saved with another sheet id, and the     *)
(* screen is left and a customer selected while the reload waits           *)
(***************************************************************************)
NextSettings ==
  \/ Launch
  \/ openSettings
  \/ cancelSettings
  \/ \E g \in {Some("sheet"), Some("other")} : handleSaveConfig(g)
  \/ addNewCustomerInline(Asha, Phone98, <<>>)
  \/ \E i \in 1..MaxCustomers : selectExistingCustomer(i)
  \/ changeCustomer
  \/ openAddItem
  \/ saveItem(Milk, T50, T1, Kg)
  \/ NetworkStep({SheetOfMilk})

SpecSettings == Init /\ [][NextSettings]_vars

(***************************************************************************)
(* Claims about line items, under SpecItems                                *)
(***************************************************************************)
RECURSIVE SumOfItems(_)
\* unitPrice x quantity summed over the line items
SumOfItems(lineItems) ==
  IF lineItems = <<>> THEN Num(0)
  ELSE Plus(SumOfItems(SubSeq(lineItems, 1, Len(lineItems) - 1)),
            Times(lineItems[Len(lineItems)].unitPrice,
                  lineItems[Len(lineItems)].quantity))

\* a step of the items screen or the item form that changes the line items
\* of the in-memory invoice: an AddLineItem, EditLineItem or DeleteLineItem
LineItemsChange ==
  /\ ~Initialize
  /\ IsSome(invoice)
  /\ IsSome(invoice')
  /\ screen \in {"items", "add-item"}
  /\ Val(invoice').lineItems # Val(invoice).lineItems

\* subtotal === total === the sum over the items
TotalsAreTheSum(inv) ==
  /\ StrictEq(inv.subtotal, inv.total)
  /\ StrictEq(inv.subtotal, SumOfItems(inv.lineItems))

\* C1: after every AddLineItem, EditLineItem and DeleteLineItem, in any
\* sequence from an empty draft, the invoice's subtotal equals its total and
\* both equal the sum of unitPrice x quantity over its current line items.
C1_TotalsFollowItems ==
  [][LineItemsChange => TotalsAreTheSum(Val(invoice'))]_vars

\* the form's input is one the claim C2 says is turned down
NotAcceptable(itemProductName, itemPrice, itemQuantity) ==
  LET price    == parseFloat(itemPrice)
      quantity == parseFloat(itemQuantity)
  IN  \/ trim(itemProductName) = <<>>
      \/ ~(price.k = "num" /\ price.v >= 0)
      \/ ~(quantity.k = "num" /\ quantity.v > 0)

\* C2: AddLineItem and EditLineItem reject the input when the trimmed name
\* is empty, the price is not a finite number >= 0 or the quantity is not a
\* finite number > 0, and a rejection leaves the invoice, the catalog and
\* the page's state unchanged.
C2_RejectsWithoutChange ==
  [][\A n \in ItemNames, p \in ItemPrices, q \in ItemQuantities :
       (NotAcceptable(n, p, q) /\ saveItem(n, p, q, Kg))
         => UNCHANGED <<invoice, draftStore, productsStore, products, screen,
                        editingItem>>]_vars

\* C5: every transition that changes the in-memory invoice leaves the
\* persisted draft equal to the in-memory invoice.
C5_DraftFollowsInvoice ==
  [][(invoice' # invoice /\ IsSome(invoice')) => draftStore' = invoice']_vars

(***************************************************************************)
(* Claims about the draft and its finalization, under Spec                 *)
(***************************************************************************)
\* the snapshot fields of a line item
Snapshot(item) == <<item.productName, item.unitPrice, item.unit>>

\* the line item of inv with the identity id
ItemOf(inv, id) == inv.lineItems[IndexOf(inv.lineItems, LAMBDA item : item.id = id)]

\* the step is an EditLineItem that names the identity id
EditStepOf(id) ==
  /\ screen = "add-item"
  /\ IsSome(editingItem)
  /\ Val(editingItem).id = id
  /\ \E n \in ProductNames, p \in Prices, q \in Quantities, u \in Units :
       saveItem(n, p, q, u)

\* a line item that before and after hold keeps its snapshot fields, unless
\* the step is an edit of that item
SnapshotsKept(before, after) ==
  \A id \in Ids(before.lineItems) \cap Ids(after.lineItems) :
    Snapshot(ItemOf(before, id)) # Snapshot(ItemOf(after, id)) => EditStepOf(id)

C4_InitializeResumes ==
  [][(Initialize /\ IsSome(draftStore) /\ Val(draftStore).customerId # 0)
       => /\ screen' = "items"
          /\ invoice' = draftStore
          /\ draftStore' = draftStore
          /\ IsSome(selectedCustomer')
          /\ Val(selectedCustomer').id = Val(draftStore).customerId
          /\ Val(selectedCustomer') \in Range(getCustomers)]_vars

\* the page after a restart on a draft with a customer and an item: the items
\* screen, the invoice as persisted, the customer and the frequent customers
\* as the customers key holds them after a finalization, nothing pending
C4_Witness ==
  /\ screen = "items"
  /\ IsSome(draftStore)
  /\ Val(draftStore).customerId # 0
  /\ Val(draftStore).lineItems # <<>>
  /\ invoice = draftStore
  /\ IsSome(selectedCustomer)
  /\ Val(selectedCustomer).id = Val(draftStore).customerId
  /\ Val(selectedCustomer) \in Range(getCustomers)
  /\ Val(selectedCustomer).usageCount > 0
  /\ frequentCustomers = getMostFrequentCustomers(getCustomers)
  /\ editingItem = None
  /\ generatedPdfBlob = None
  /\ Unfinished = 0

\* the step removes the persisted draft, or replaces it by another invoice
DraftRemoved ==
  /\ IsSome(draftStore)
  /\ draftStore' = None \/ Val(draftStore').id # Val(draftStore).id

\* C6: the persisted draft is cleared or replaced by an empty draft only as
\* the result of a ConfirmDelivery that a success signal triggered: no error
\* leads to a step that removes it.
C6_DraftRemovedOnlyOnSuccess ==
  [][DraftRemoved
       => \/ resetTimer
          \/ (readerLoadEnd /\ Head(pendingReaders).cause # "error")]_vars

\* the invoices that count as drafts: in memory, under the draft key, in the
\* history
Drafts ==
  {inv \in Range(invoice) \cup Range(draftStore) \cup Range(getInvoices) : inv.isDraft}

\* an empty draft: no items, zero totals, no customer
EmptyDraft(inv) ==
  /\ inv.isDraft
  /\ inv.lineItems = <<>>
  /\ inv.subtotal = Num(0)
  /\ inv.total = Num(0)
  /\ inv.customerId = 0
  /\ inv.customerName = <<>>
  /\ inv.customerPhone = None
  /\ inv.customerAddress = None

\* C7: at most one draft invoice exists at any time, and each finalization
\* produces exactly one new empty draft, whose identity differs from the
\* finalized invoice's: the finalization sets one timer, and the timer, or
\* the restart that comes before it, installs one empty draft.
C7_OneDraft ==
  [][/\ Cardinality({inv.id : inv \in Drafts'}) <= 1
     /\ \A k \in 1..Len(getInvoices') : ~getInvoices'[k].isDraft
     /\ readerLoadEnd => pendingResets' = pendingResets + 1
     /\ (resetTimer \/ (Initialize /\ draftStore = None))
          => /\ EmptyDraft(Val(invoice'))
             /\ draftStore' = invoice'
             /\ Val(invoice').id \notin Ids(getInvoices')
             /\ IsSome(invoice) => Val(invoice').id # Val(invoice).id]_vars

\* after a finalization and its reset: the history holds the invoice, and the
\* one draft is a new empty one
C7_Witness ==
  /\ getInvoices # <<>>
  /\ Unfinished = 0
  /\ IsSome(invoice)
  /\ EmptyDraft(Val(invoice))
  /\ draftStore = invoice
  /\ Val(invoice).id \notin Ids(getInvoices)
  /\ screen = "customer-selection"

(***************************************************************************)
(* Claims about the catalog and the cache, under SpecCatalog               *)
(***************************************************************************)
\* the products of a list whose name is n when written in lower case
Named(ps, n) == SelectSeq(ps, LAMBDA p : toLowerCase(p.name) = n)

\* the names of a list, in lower case
LowerNames(ps) == {toLowerCase(ps[i].name) : i \in 1..Len(ps)}

\* the locally entered products of a list
Locals(ps) == SelectSeq(ps, LAMBDA p : ~p.fromSheet)

\* the names that the sheet products and the local products of the last
\* getAllProducts call share
SharedNames ==
  LowerNames(loaded.sheetProducts) \cap LowerNames(Locals(loaded.manualProducts))

\* C8, as the spec states it: when a remote and a local product share a name
\* without regard to case, the list getAllProducts returns has exactly one
\* entry with that name, the remote one.
C8_ExactlyOneEntry ==
  \A n \in SharedNames :
    /\ Len(Named(products, n)) = 1
    /\ Named(products, n)[1].fromSheet

\* C8: when a remote and a local product share a name without regard to
\* case, the entries with that name in the list getAllProducts returns are
\* the remote ones, as many and in the order the sheet lists them, and the
\* local entry is absent.
C8_RemoteEntriesOnly ==
  \A n \in SharedNames :
    /\ Named(products, n) = Named(loaded.sheetProducts, n)
    /\ \A i \in 1..Len(Named(products, n)) : Named(products, n)[i].fromSheet
    /\ Len(Named(loaded.sheetProducts, n)) = 1 => Len(Named(products, n)) = 1

\* the last call merged the sheet's "Milk" with a local "milk", and the
\* list holds the name once
C8_Witness ==
  /\ loaded.via # "none"
  /\ toLowerCase(Milk) \in SharedNames
  /\ \E i \in 1..Len(loaded.sheetProducts) : loaded.sheetProducts[i].name = Milk
  /\ \E i \in 1..Len(loaded.manualProducts) : loaded.manualProducts[i].name = milk
  /\ Len(Named(products, toLowerCase(Milk))) = 1

\* the local products of the last call that share no name with its sheet
\* products
FreeLocals ==
  SelectSeq(Locals(loaded.manualProducts),
            LAMBDA p : toLowerCase(p.name) \notin LowerNames(loaded.sheetProducts))

\* C9: the list getAllProducts returns is the remote products in their
\* parsed order followed by the local products that share no name with
\* them: no local product precedes a remote one.
C9_RemoteFirst ==
  LET k == Len(loaded.sheetProducts)
  IN  /\ Len(products) = k + Len(FreeLocals)
      /\ SubSeq(products, 1, k) = loaded.sheetProducts
      /\ SubSeq(products, k + 1, Len(products)) = FreeLocals
      /\ \A i \in 1..k : products[i].fromSheet
      /\ \A i, j \in 1..Len(products) :
           (~products[i].fromSheet /\ products[j].fromSheet) => j < i

\* the last call returned a remote product and, after it, a local product of
\* another name
C9_Witness ==
  /\ loaded.via = "fetched"
  /\ loaded.sheetProducts # <<>>
  /\ FreeLocals # <<>>
  /\ products[1].fromSheet
  /\ ~products[Len(products)].fromSheet

\* C10: with a sheet configured, a getAllProducts call gets the cache entry
\* without a fetch only while the entry's age is below the cache duration
\* of five minutes; the entry it gets is the one the last fetch stored.
C10_CacheOnlyWhileFresh ==
  loaded.via = "cache"
    => /\ SHEET_ID # ""
       /\ loaded.at - loaded.cachedAt < CACHE_DURATION
       /\ loaded.at - loaded.cachedAt < 5 * 60 * 1000
       /\ IsSome(cachedProducts)
       /\ loaded.cachedAt = lastFetchTime

\* a call got the cache entry one millisecond before it expired
C10_Witness ==
  /\ loaded.via = "cache"
  /\ loaded.sheetProducts # <<>>
  /\ loaded.at - loaded.cachedAt = CACHE_DURATION - 1

(***************************************************************************)
(* Claims about the configured source and the cache, under SpecSource      *)
(***************************************************************************)
\* the step changes the sheet id of the merchant configuration
SourceChanges ==
  /\ IsSome(merchantConfig)
  /\ IsSome(merchantConfig')
  /\ Val(merchantConfig').googleSheetId # Val(merchantConfig).googleSheetId

\* a getAllProducts call made now would be answered from the cache
CacheAnswers == FetchDecision(cachedProducts, lastFetchTime) = "cache"

\* C11: a cache entry fetched for one source is never used to answer
\* getAllProducts once another source is configured: the step that changes
\* the configured source is not answered from the cache and leaves no cache
\* entry that would answer a call.
C11_SourceChangeInvalidates ==
  [][SourceChanges => (~CacheAnswers /\ ~CacheAnswers')]_vars

(***************************************************************************)
(* More claims about the catalog, under SpecCatalog                        *)
(***************************************************************************)
\* the outcomes of a fetch that count as a failure
FetchFailures == {"http-error", "network-error"}

\* C12: getAllProducts never fails on a fetch failure (a rejected fetch or a
\* response that is not ok): the call returns, and its result contains every
\* locally entered product it read from the products key that no remote
\* product of the result suppresses.
C12_FailedFetchReturnsLocals ==
  [][\A i \in 1..MaxPending, outcome \in FetchFailures, csvText \in CatalogSheets :
       fetchSettles(i, outcome, csvText)
         => /\ loaded'.via = "fallback"
            /\ loaded'.manualProducts = pendingFetches[i].manualProducts
            /\ Len(pendingFetches') = Len(pendingFetches) - 1
            /\ \A p \in Range(pendingFetches[i].manualProducts) :
                 (~p.fromSheet
                  /\ toLowerCase(p.name) \notin LowerNames(loaded'.sheetProducts))
                   => p \in Range(products')]_vars

\* a fetch failed with nothing cached, and the call returned the local
\* products
C12_Witness ==
  /\ loaded.via = "fallback"
  /\ loaded.sheetProducts = <<>>
  /\ FreeLocals # <<>>
  /\ products = FreeLocals

(***************************************************************************)
(* Claims about the PDF document, under SpecPdf                            *)
(***************************************************************************)
\* C13: every line-item row is drawn between the top and the bottom margin of
\* one page: the baseline of its first line is at or below the top margin and
\* the baseline of the last line of its name at or above the bottom margin.
C13_RowsWithinMargins ==
  IsSome(pdf.row)
    => LET row == Val(pdf.row)
       IN  /\ row.top >= margin
           /\ LastBaseline(row.top, row.lines, 10) <= pageHeight - margin

(***************************************************************************)
(* Claims about the store, under SpecStore                                 *)
(***************************************************************************)
Unreadable(item) == Len(item) # 1

\* C14: a read of a key that is missing or holds text that is no JSON gives
\* the default of its caller, for the customers, products, draft, history
\* and configuration keys, and the handlers that read such a key go on with
\* that default: a start makes a new draft on the customer screen, shows no
\* frequent customers, no local products and the default configuration, and
\* a delivery starts the history anew.
C14_ReadsReturnDefault ==
  [][/\ Unreadable(customersStore) => getCustomers = <<>>
     /\ Unreadable(productsStore) => getProducts = <<>>
     /\ Unreadable(draftStore) => getDraftInvoice = None
     /\ Unreadable(invoicesStore) => getInvoices = <<>>
     /\ Unreadable(configStore) => getMerchantConfig = DEFAULT_MERCHANT_CONFIG
     /\ Initialize
          => /\ Unreadable(draftStore)
                  => /\ EmptyDraft(Val(invoice'))
                     /\ screen' = "customer-selection"
                     /\ draftStore' = invoice'
             /\ Unreadable(customersStore)
                  => frequentCustomers' = <<>> /\ selectedCustomer' = None
             /\ Unreadable(productsStore) => loaded'.manualProducts = <<>>
             /\ Unreadable(configStore)
                  => merchantConfig' = Some(DEFAULT_MERCHANT_CONFIG)
     /\ (readerLoadEnd /\ Unreadable(invoicesStore)) => Len(getInvoices') = 1]_vars

\* the page started over damaged customers, products and configuration keys
C14_Witness ==
  /\ Len(customersStore) = 2
  /\ Len(productsStore) = 2
  /\ Len(configStore) = 2
  /\ IsSome(invoice)
  /\ frequentCustomers = <<>>
  /\ products = <<>>
  /\ merchantConfig = Some(DEFAULT_MERCHANT_CONFIG)

(***************************************************************************)
(* Claims about sharing, under Spec                                        *)
(***************************************************************************)
\* C15: when the user cancels the share sheet while the share screen is
\* shown, nothing changes: the screen stays the share screen, the document
\* and the invoice are kept, no error is shown, the draft key, the history
\* and the customers key are as before, and no finalization begins.
C15_CancelChangesNothing ==
  [][(shareSettles("AbortError") /\ screen = "share")
       => /\ screen' = "share"
          /\ generatedPdfBlob' = generatedPdfBlob
          /\ invoice' = invoice
          /\ selectedCustomer' = selectedCustomer
          /\ shareError' = shareError
          /\ draftStore' = draftStore
          /\ invoicesStore' = invoicesStore
          /\ customersStore' = customersStore
          /\ pendingReaders' = pendingReaders
          /\ pendingResets' = pendingResets]_vars

\* the user cancelled the share sheet: the share screen still shows the
\* document of the persisted draft
C15_Witness ==
  /\ IsSome(shareSettled)
  /\ Val(shareSettled).outcome = "AbortError"
  /\ screen = "share"
  /\ IsSome(generatedPdfBlob)
  /\ draftStore = invoice
  /\ Unfinished = 0

\* C16: when navigator.share fails for another reason than a cancel while
\* the share screen is shown, through either share button, an error is shown,
\* the share screen, the document and the draft key stay, and no
\* finalization of the invoice begins.
C16_FailureKeepsDraft ==
  [][(shareSettles("error") /\ screen = "share")
       => /\ shareError' # ""
          /\ screen' = "share"
          /\ generatedPdfBlob' = generatedPdfBlob
          /\ draftStore' = draftStore
          /\ pendingReaders' = pendingReaders]_vars

(***************************************************************************)
(* Claims about overlapping fetches and the manual refresh, under          *)
(* SpecSource                                                              *)
(***************************************************************************)
\* the cache entry is the one the getAllProducts call that returned last
\* fetched and stored
EntryOfLastCall ==
  /\ loaded.via = "fetched"
  /\ IsSome(cachedProducts)
  /\ loaded.cachedAt = lastFetchTime

\* C17: a fetch that resolves after a fetch that started later has stored
\* its result leaves that newer cache entry alone, in memory and in the
\* store.
C17_SlowFetchKeepsNewerEntry ==
  [][\A i \in 1..MaxPending, csvText \in SourceSheets :
       (/\ fetchSettles(i, "ok", csvText)
        /\ EntryOfLastCall
        /\ pendingFetches[i].startedAt < loaded.startedAt)
         => UNCHANGED <<cachedProducts, lastFetchTime, cacheStore, cacheTimeStore>>]_vars

\* no getAllProducts call has been made since clearProductCache ran, except
\* perhaps the waiting ones
NoCallSinceInvalidation ==
  /\ IsSome(invalidatedAt)
  /\ loaded.at < Val(invalidatedAt)

\* C18: clearProductCache empties the cache entry in memory and in the
\* store, and the getAllProducts call that comes next, a sheet being
\* configured, fetches: this also when the only fetch in flight at the
\* time of the invalidation resolves after it, so that fetch leaves no entry
\* that would answer the next call.
C18_InvalidateForcesRefetch ==
  [][/\ clearProductCache
          => /\ cachedProducts' = None
             /\ cacheStore' = None
             /\ cacheTimeStore' = None
             /\ ~CacheAnswers'
     /\ \A csvText \in SourceSheets :
          (/\ fetchSettles(1, "ok", csvText)
           /\ Len(pendingFetches) = 1
           /\ NoCallSinceInvalidation
           /\ pendingFetches[1].startedAt < Val(invalidatedAt))
            => ~CacheAnswers']_vars

(***************************************************************************)
(* Claims about delivery, under SpecDelivery                               *)
(***************************************************************************)
\* the customer of the given id in the customers key
StoredCustomer(customers, id) == customers[IndexOf(customers, LAMBDA c : c.id = id)]

\* the page waits for a customer with a new empty draft, persisted
CustomerPending ==
  /\ screen = "customer-selection"
  /\ IsSome(invoice)
  /\ EmptyDraft(Val(invoice))
  /\ draftStore = invoice
  /\ selectedCustomer = None
  /\ generatedPdfBlob = None

\* the last finalized invoice of the history
LastInvoice(history) == history[Len(history)]

\* C19: a share that succeeds begins the finalization of the invoice on the
\* share screen; the finalization appends that invoice to the history with
\* isDraft false, increments the usage counter of its customer and stamps
\* the time, and removes the draft key; and once a finalization has begun
\* the session gets to the customer screen with a new empty persisted
\* draft, no customer selected and no document.
C19_DeliveryFinalizes ==
  /\ [][/\ (shareSettles("shared") /\ screen = "share")
             => /\ Len(pendingReaders') = Len(pendingReaders) + 1
                /\ pendingReaders'[Len(pendingReaders')].invoice = invoice
        /\ readerLoadEnd
             => LET c  == Head(pendingReaders)
                    id == Val(c.selectedCustomer).id
                IN  /\ Len(getInvoices') = Len(getInvoices) + 1
                    /\ SubSeq(getInvoices', 1, Len(getInvoices)) = getInvoices
                    /\ ~LastInvoice(getInvoices').isDraft
                    /\ [LastInvoice(getInvoices') EXCEPT !.isDraft = TRUE,
                                                         !.generatedPdfBlob = None]
                         = InvoiceJson(Val(c.invoice))
                    /\ id \in Ids(getCustomers)
                    /\ StoredCustomer(getCustomers', id).usageCount
                         = StoredCustomer(getCustomers, id).usageCount + 1
                    /\ StoredCustomer(getCustomers', id).lastUsed = now
                    /\ draftStore' = None]_vars
  /\ (pendingReaders # <<>>) ~> CustomerPending

\* after a successful share the invoice is in the history and the page
\* waits for the next customer
C19_Witness ==
  /\ CustomerPending
  /\ getInvoices # <<>>
  /\ ~LastInvoice(getInvoices).isDraft
  /\ LastInvoice(getInvoices).lineItems # <<>>
  /\ \E i \in 1..Len(getCustomers) : getCustomers[i].usageCount > 0
  /\ Unfinished = 0

(***************************************************************************)
(* Claims about generation, under Spec                                     *)
(***************************************************************************)
\* the invoice has a line item and a customer is selected
Finalizable ==
  /\ IsSome(invoice)
  /\ Len(Val(invoice).lineItems) > 0
  /\ IsSome(selectedCustomer)

\* C20: handleGenerateInvoice changes nothing and generates no document
\* when the invoice has no line item or no customer is selected, and the
\* share screen is shown only for an invoice with a line item, a selected
\* customer and a generated document.
C20_GenerateNeedsItemsAndCustomer ==
  [][/\ \A ok \in BOOLEAN :
          (handleGenerateInvoice(ok) /\ ~Finalizable) => UNCHANGED vars
     /\ screen' = "share" => (Finalizable' /\ IsSome(generatedPdfBlob'))
     /\ (screen # "share" /\ screen' = "share")
          => (\E ok \in BOOLEAN : handleGenerateInvoice(ok)) /\ Finalizable]_vars

\* the share screen shows the document of an invoice with an item and a
\* customer, just generated
C20_Witness ==
  /\ screen = "share"
  /\ Finalizable
  /\ generatedPdfBlob = Some(Val(invoice).id)
  /\ shareSettled = None
  /\ Unfinished = 0

\* C21: when generateInvoicePDF throws, the page stays on the items screen,
\* an error is recorded, no document is stored, and the invoice in memory
\* and the draft key are as before.
C21_FailedGenerationKeepsDraft ==
  [][(handleGenerateInvoice(FALSE) /\ Finalizable)
       => /\ screen' = "items"
          /\ shareError' # ""
          /\ generatedPdfBlob' = None
          /\ invoice' = invoice
          /\ selectedCustomer' = selectedCustomer
          /\ draftStore' = draftStore
          /\ invoicesStore' = invoicesStore
          /\ Unfinished' = Unfinished]_vars

\* generation failed for an invoice with an item and a customer
C21_Witness ==
  /\ screen = "items"
  /\ Finalizable
  /\ shareError = GenerationError
  /\ generatedPdfBlob = None
  /\ draftStore = Some(InvoiceJson(Val(invoice)))

(***************************************************************************)
(* Claims about the catalog and the item form, under SpecCatalog           *)
(***************************************************************************)
\* the step appends a line item to the invoice: a successful AddLineItem
AddLineItemStep ==
  /\ ~Initialize
  /\ screen = "add-item"
  /\ IsSome(invoice)
  /\ IsSome(invoice')
  /\ Len(Val(invoice').lineItems) = Len(Val(invoice).lineItems) + 1

RECURSIVE UsageSum(_)
\* the usage counters of a list of products, summed
UsageSum(ps) == IF ps = <<>> THEN 0 ELSE Head(ps).usageCount + UsageSum(Tail(ps))

\* the products of the given name: those of the products key, and the remote
\* ones among the products the page holds
KnownProducts(stored, shown, n) ==
  Named(stored, n) \o SelectSeq(Named(shown, n), LAMBDA p : p.fromSheet)

\* C22: a successful AddLineItem updates the catalog exactly once: when a
\* product of the item's name (without regard to case) exists, locally
\* entered or remote, no product is created and the usage counters of that
\* name go up by 1 in all; otherwise one locally entered product of that
\* name with usage count 1 is appended to the products key.
C22_CatalogUpdatedOnce ==
  [][AddLineItemStep
       => LET items == Val(invoice').lineItems
              name  == items[Len(items)].productName
              n     == toLowerCase(name)
              known == KnownProducts(getProducts, products, n)
          IN  IF known # <<>>
              THEN /\ Len(getProducts') = Len(getProducts)
                   /\ UsageSum(KnownProducts(getProducts', products', n))
                        = UsageSum(known) + 1
              ELSE /\ Len(getProducts') = Len(getProducts) + 1
                   /\ SubSeq(getProducts', 1, Len(getProducts)) = getProducts
                   /\ getProducts'[Len(getProducts')].name = name
                   /\ getProducts'[Len(getProducts')].usageCount = 1
                   /\ ~getProducts'[Len(getProducts')].fromSheet]_vars

\* the contents of the last cache entry a fetch stored, <<>> when there is
\* none: the entry in memory, or else the persisted one
LastKnownEntry ==
  IF IsSome(cachedProducts) THEN Val(cachedProducts)
  ELSE IF IsSome(cacheStore) THEN Val(cacheStore)
  ELSE <<>>

\* C23: when the fetch of a getAllProducts call fails, the call's remote
\* list is the contents of the last known cache entry, whatever its age and
\* also when it was persisted before a restart, and the empty list when
\* there is no entry.
C23_FailedFetchFallsBack ==
  [][\A i \in 1..MaxPending, outcome \in FetchFailures, csvText \in CatalogSheets :
       fetchSettles(i, outcome, csvText)
         => /\ loaded'.via = "fallback"
            /\ loaded'.sheetProducts = LastKnownEntry]_vars

(***************************************************************************)
(* Claims about the catalog without a sheet, under SpecLocals              *)
(***************************************************************************)
\* C24: with no sheet configured, the list a getAllProducts call returns is
\* exactly the locally entered products of the products key, none of them
\* remote, in descending order of usage count.
C24_LocalsByUsage ==
  loaded.via = "empty"
    => /\ Len(products) = Len(Locals(loaded.manualProducts))
       /\ Range(products) = Range(Locals(loaded.manualProducts))
       /\ \A i \in 1..Len(products) : ~products[i].fromSheet
       /\ \A i, j \in 1..Len(products) :
            i < j => products[i].usageCount >= products[j].usageCount

(***************************************************************************)
(* Claims about parsing, under SpecParse                                   *)
(***************************************************************************)
\* a row of at least three fields whose price is a finite number, not
\* negative
AcceptableRow(row) ==
  /\ Len(row) >= 3
  /\ parseFloat(row[2]).k = "num"
  /\ parseFloat(row[2]).v >= 0

\* C25: the products parsed from a sheet are, in the order of the rows, one
\* product for each row below the header that has at least three fields and
\* a price that is a finite number and not negative, with the name and the
\* price of that row; every other row gives nothing.
C25_ParsesAcceptableRows ==
  [][\A i \in 1..MaxPending, rows \in SheetRows :
       fetchSettles(i, "ok", CsvText(<<CsvHeader>> \o rows))
         => LET expected == SelectSeq(rows, AcceptableRow)
                parsed   == loaded'.sheetProducts
            IN  /\ Len(parsed) = Len(expected)
                /\ \A k \in 1..Len(parsed) :
                     k <= Len(expected)
                       => /\ parsed[k].name = expected[k][1]
                          /\ parsed[k].price = parseFloat(expected[k][2])]_vars

(***************************************************************************)
(* Claims about the customer of the draft, under Spec                      *)
(***************************************************************************)
\* the page waits for a customer
AwaitingCustomer ==
  /\ screen = "customer-selection"
  /\ IsSome(invoice)
  /\ selectedCustomer = None

\* the invoice holds the identity and the snapshot of the customer
SnapshotOf(inv, customer) ==
  /\ inv.customerId = customer.id
  /\ inv.customerName = customer.name
  /\ inv.customerPhone = customer.phone
  /\ inv.customerAddress = customer.address

\* the invoice but for its customer
WithoutCustomer(inv) ==
  [inv EXCEPT !.customerId = 0, !.customerName = <<>>,
              !.customerPhone = None, !.customerAddress = None]

\* a step of the page, not its start, that selects a customer
SelectCustomerStep ==
  /\ ~Initialize
  /\ IsSome(selectedCustomer')
  /\ selectedCustomer' # selectedCustomer

\* the page shows the customer-selection screen
OnCustomerScreen == screen = "customer-selection" /\ IsSome(invoice)

\* the step gives the invoice the customer it selects, and nothing else
AttachesCustomer(customer) ==
  /\ OnCustomerScreen
  /\ selectedCustomer' = Some(customer)
  /\ IsSome(invoice')
  /\ SnapshotOf(Val(invoice'), customer)
  /\ WithoutCustomer(Val(invoice')) = WithoutCustomer(Val(invoice))
  /\ screen' = "items"

\* C26: a customer is selected only on the customer-selection screen; the
\* step gives the invoice the identity, name, phone and address of the
\* chosen customer in place of any earlier ones, changes no line item and
\* no total, and shows the items screen; the chosen customer is the one of
\* the list that was clicked, or the new customer, who is then stored.
C26_SelectCustomer ==
  [][/\ SelectCustomerStep => AttachesCustomer(Val(selectedCustomer'))
     /\ \A i \in 1..MaxCustomers :
          selectExistingCustomer(i) => AttachesCustomer(frequentCustomers[i])
     /\ \A c \in CustomerInputs :
          addNewCustomerInline(c[1], c[2], c[3])
            => /\ AttachesCustomer(Val(selectedCustomer'))
               /\ Val(selectedCustomer').name = trim(c[1])
               /\ Val(selectedCustomer').id \notin {k.id : k \in Range(getCustomers)}
               /\ Val(selectedCustomer') \in Range(getCustomers')]_vars

\* the second customer was selected for an invoice that has a line item and
\* none of the first customer's phone
C26_Witness ==
  /\ screen = "items"
  /\ IsSome(selectedCustomer)
  /\ IsSome(invoice)
  /\ Len(Val(invoice).lineItems) > 0
  /\ Len(getCustomers) = 2
  /\ SnapshotOf(Val(invoice), Val(selectedCustomer))
  /\ Val(invoice).customerPhone = None
  /\ \E k \in Range(getCustomers) : IsSome(k.phone)

\* C27: the Change button of the items screen takes the customer's identity
\* off the invoice, leaves its line items and totals as they were, and has
\* the page wait for a customer.
C27_ChangeCustomer ==
  [][changeCustomer
       => /\ screen = "items"
          /\ Val(invoice').customerId = 0
          /\ Val(invoice').lineItems = Val(invoice).lineItems
          /\ Val(invoice').subtotal = Val(invoice).subtotal
          /\ Val(invoice').total = Val(invoice).total
          /\ AwaitingCustomer']_vars

\* the page waits for a customer with an invoice that has a line item: the
\* customer of that invoice was taken off
C27_Witness ==
  /\ AwaitingCustomer
  /\ Val(invoice).customerId = 0
  /\ Len(Val(invoice).lineItems) > 0
  /\ draftStore = invoice

(***************************************************************************)
(* Claims about the line items, under SpecLines                            *)
(***************************************************************************)
\* the Update Item button with a form that is accepted
EditLineItemStep ==
  /\ IsSome(editingItem)
  /\ \E n \in LocalNames, p \in {T50, T500} :
       /\ ~Rejected(n, p, T1)
       /\ saveItem(n, p, T1, Kg)

\* C28: editing a line item changes no product of the catalog, stored or
\* shown: none is created and no usage count changes, whatever the name the
\* item is given.
C28_EditKeepsCatalog ==
  [][EditLineItemStep
       => /\ productsStore' = productsStore
          /\ products' = products
          /\ cacheStore' = cacheStore
          /\ pendingFetches' = pendingFetches]_vars

\* an item was given a name that no product of the catalog has
C28_Witness ==
  /\ screen = "items"
  /\ IsSome(invoice)
  /\ \E i \in 1..Len(Val(invoice).lineItems) :
       /\ Val(invoice).lineItems[i].productName = Paneer
       /\ Named(getProducts, toLowerCase(Paneer)) = <<>>
  /\ getProducts # <<>>

\* the Add Item button with a form that is accepted
NewLineItemStep ==
  /\ editingItem = None
  /\ \E n \in LocalNames, p \in {T50, T500} :
       /\ ~Rejected(n, p, T1)
       /\ saveItem(n, p, T1, Kg)

\* the identities of the line items, in their order
IdsInOrder(inv) == [i \in 1..Len(inv.lineItems) |-> inv.lineItems[i].id]

\* the items of after stand in the order they have in before
SameOrder(before, after) ==
  \A i, j \in 1..Len(after) :
    i < j => \E k, l \in 1..Len(before) :
               /\ k < l
               /\ before[k] = after[i]
               /\ before[l] = after[j]

C30_DeleteByIdentity ==
  [][\A id \in ItemIds :
       deleteItem(id)
         => LET before == Val(invoice).lineItems
                after  == Val(invoice').lineItems
            IN  /\ Range(after) = {item \in Range(before) : item.id # id}
                /\ Len(after) = Len(before) - (IF id \in Ids(before) THEN 1 ELSE 0)
                /\ (id \notin Ids(before)
                      => /\ after = before
                         /\ Val(invoice').subtotal = Val(invoice).subtotal
                         /\ Val(invoice').total = Val(invoice).total)]_vars

\* the first of two items was deleted: the second is the only one, and the
\* totals are its total
C30_Witness ==
  /\ IsSome(invoice)
  /\ IdsInOrder(Val(invoice)) = <<2>>
  /\ Val(invoice).total = calculateTotal(Val(invoice).lineItems)
  /\ screen = "items"

(***************************************************************************)
(* Claims about the start of the page, under Spec                          *)
(***************************************************************************)
\* C31: started with no persisted draft, the page builds an empty draft (no
\* line item, zero totals, a draft, no customer), persists it and waits for
\* a customer; started with a persisted draft that names no customer, it
\* waits for a customer with that draft, which stays persisted as it was.
C31_InitializeWithoutCustomer ==
  [][/\ (Initialize /\ draftStore = None)
          => /\ EmptyDraft(Val(invoice'))
             /\ draftStore' = invoice'
             /\ AwaitingCustomer'
     /\ (Initialize /\ IsSome(draftStore) /\ Val(draftStore).customerId = 0)
          => /\ invoice' = draftStore
             /\ draftStore' = draftStore
             /\ AwaitingCustomer']_vars

\* the page after a restart on a draft whose customer was taken off: it
\* waits for a customer with the persisted items, no item form left open
C31_Witness ==
  /\ AwaitingCustomer
  /\ invoice = draftStore
  /\ Val(invoice).customerId = 0
  /\ Len(Val(invoice).lineItems) = MaxItems
  /\ getCustomers # <<>>
  /\ editingItem = None
  /\ frequentCustomers = getMostFrequentCustomers(getCustomers)
  /\ products = getProducts
  /\ Unfinished = 0

(***************************************************************************)
(* Claims about fetches that wait, under SpecReload                        *)
(***************************************************************************)
\* the page shows its controls
ControlsShown == IsSome(invoice) /\ pendingShare = None

\* the invoice with the customer
WithCustomer(inv, customer) ==
  [inv EXCEPT !.customerId = customer.id, !.customerName = customer.name,
              !.customerPhone = customer.phone, !.customerAddress = customer.address]

\* C32: while a fetch of the sheet waits, each transition of the draft that
\* the state of the page allows (selecting and changing the customer,
\* adding, editing and deleting an item, generating the document, the
\* download and its finalization) can be taken, and gives the invoice that
\* the invoice before it and the input determine: none waits for the fetch.
C32_EditingNeverWaits ==
  pendingFetches # <<>>
    => /\ (ControlsShown /\ screen = "customer-selection" /\ getCustomers = <<>>)
            => ENABLED (/\ addNewCustomerInline(Asha, Phone98, <<>>)
                        /\ Val(invoice').customerName = Asha
                        /\ screen' = "items")
       /\ \A i \in 1..MaxCustomers :
            (ControlsShown /\ screen = "customer-selection" /\ i <= Len(frequentCustomers))
              => ENABLED (/\ selectExistingCustomer(i)
                          /\ invoice' = Some(WithCustomer(Val(invoice), frequentCustomers[i]))
                          /\ screen' = "items")
       /\ (ControlsShown /\ screen = "items")
            => /\ ENABLED (/\ changeCustomer
                           /\ Val(invoice').customerId = 0
                           /\ Val(invoice').lineItems = Val(invoice).lineItems
                           /\ screen' = "customer-selection")
               /\ ENABLED (openAddItem /\ screen' = "add-item")
               /\ \A i \in 1..Len(Val(invoice).lineItems) :
                    /\ ENABLED (openEditItem(i) /\ screen' = "add-item")
                    /\ ENABLED (/\ deleteItem(Val(invoice).lineItems[i].id)
                                /\ Len(Val(invoice').lineItems)
                                     = Len(Val(invoice).lineItems) - 1)
               /\ Finalizable
                    => ENABLED (/\ handleGenerateInvoice(TRUE)
                                /\ screen' = "share"
                                /\ invoice' = invoice)
       /\ (ControlsShown /\ screen = "add-item" /\ IsSome(editingItem))
            => ENABLED (/\ saveItem(Milk, T50, T1, Kg)
                        /\ invoice' = Some(EditedInvoice(Val(invoice), Val(editingItem),
                                                         Milk, T50, T1, Kg))
                        /\ screen' = "items")
       /\ (/\ ControlsShown /\ screen = "add-item" /\ editingItem = None
           /\ Len(Val(invoice).lineItems) < MaxItems
           /\ CatalogHasRoom(Milk)
           /\ Len(pendingFetches) < MaxPending)
            => ENABLED (/\ saveItem(Milk, T50, T1, Kg)
                        /\ Len(Val(invoice').lineItems) = Len(Val(invoice).lineItems) + 1
                        /\ SubSeq(Val(invoice').lineItems, 1, Len(Val(invoice).lineItems))
                             = Val(invoice).lineItems
                        /\ screen' = "items")
       /\ (/\ ControlsShown /\ screen = "share"
           /\ Unfinished < MaxPending
           /\ Len(getInvoices) + Unfinished < MaxHistory)
            => ENABLED (downloadPDF /\ pendingReaders' # pendingReaders)
       /\ (pendingReaders # <<>> /\ Len(getInvoices) < MaxHistory)
            => ENABLED (/\ readerLoadEnd
                        /\ Len(getInvoices') = Len(getInvoices) + 1
                        /\ draftStore' = None)

\* an invoice with a customer and an item was generated and is being
\* finalized while a fetch of the sheet waits
C32_Witness ==
  /\ pendingFetches # <<>>
  /\ screen = "share"
  /\ IsSome(generatedPdfBlob)
  /\ Len(Val(invoice).lineItems) > 0
  /\ pendingResets > 0
  /\ Len(getInvoices) = 1

(***************************************************************************)
(* Claims about the products key, under SpecCatalog                        *)
(***************************************************************************)
\* C33: the products key never holds a product of the sheet, whatever
\* getAllProducts calls, added items and usage increments came before; and
\* a getAllProducts call, from its start to the arrival of the sheet, leaves
\* the key as it was, also when it leaves a local product out of its list
\* for a sheet product of the same name.
C33_ProductsKeyLocalOnly ==
  [][/\ \A k \in 1..Len(getProducts') : ~getProducts'[k].fromSheet
     /\ (\/ Initialize
         \/ \E i \in 1..MaxPending, outcome \in FetchOutcomes, csvText \in CatalogSheets :
              fetchSettles(i, outcome, csvText))
          => productsStore' = productsStore]_vars

\* the sheet's product took the place of a local product of its name in the
\* list, and the local product is under the products key with its usage
C33_Witness ==
  /\ loaded.via = "fetched"
  /\ \E k \in 1..Len(getProducts) :
       /\ toLowerCase(getProducts[k].name) \in LowerNames(loaded.sheetProducts)
       /\ getProducts[k].usageCount > 0
       /\ getProducts[k] \notin Range(products)
  /\ \E k \in 1..Len(products) : products[k].fromSheet

(***************************************************************************)
(* Claims about the totals of the document, under SpecPdf                  *)
(***************************************************************************)
\* C34: whatever the number of line items, the subtotal line and the total
\* with its box are drawn on one page, between its top and bottom margins,
\* and the rule and the text of the footer are drawn on the last page of the
\* document, at or above its bottom margin.
C34_TotalsWithinMargins ==
  pdf.phase = "done"
    => LET t == Val(pdf.totals)
       IN  /\ t.subtotalPage = t.totalPage
           /\ t.subtotalY >= margin
           /\ t.subtotalY <= pageHeight - margin
           /\ t.totalY <= pageHeight - margin
           /\ t.boxBottom <= pageHeight - margin
           /\ t.footerPage = pdf.page
           /\ t.footerPage >= t.totalPage
           /\ t.ruleY >= margin
           /\ t.ruleY <= pageHeight - margin
           /\ t.footerY <= pageHeight - margin

\* a document of MaxRows line items whose totals end a page and whose
\* footer is on the next, the last one
C34_Witness ==
  /\ pdf.phase = "done"
  /\ pdf.rows = MaxRows
  /\ Val(pdf.totals).totalPage > 1
  /\ Val(pdf.totals).footerPage = Val(pdf.totals).totalPage + 1

(***************************************************************************)
(* Claims about the line items of every invoice, under SpecItems           *)
(***************************************************************************)
\* a line item with a name, a price that is a number not below 0 and a
\* quantity that is a number above 0
WellFormedItem(item) ==
  /\ trim(item.productName) # <<>>
  /\ item.unitPrice.k \in {"num", "inf"}
  /\ LessEq(Num(0), item.unitPrice)
  /\ item.quantity.k \in {"num", "inf"}
  /\ Less(Num(0), item.quantity)

\* C35: in every state, every line item of the invoice in memory, of the
\* persisted draft and of every invoice of the history has a name that is
\* not blank, a unit price >= 0 and a quantity > 0.
C35_ItemsWellFormed ==
  \A inv \in Range(invoice) \cup Range(getDraftInvoice) \cup Range(getInvoices) :
    \A k \in 1..Len(inv.lineItems) : WellFormedItem(inv.lineItems[k])

(***************************************************************************)
(* Claims about the customer on the screens of the draft, under Spec       *)
(***************************************************************************)
\* C36: whenever the page shows the items screen, the item form or the share
\* screen, a customer is selected, and the invoice names a customer, the
\* selected one.
C36_CustomerOnItemScreens ==
  screen \in {"items", "add-item", "share"}
    => /\ IsSome(invoice)
       /\ IsSome(selectedCustomer)
       /\ Val(invoice).customerId # 0
       /\ Val(invoice).customerId = Val(selectedCustomer).id

\* the share screen of an invoice of the second customer, after an invoice
\* of the first one
C36_Witness ==
  /\ screen = "share"
  /\ IsSome(selectedCustomer)
  /\ Val(invoice).customerId = Val(selectedCustomer).id
  /\ Len(getInvoices) > 0
  /\ getInvoices[1].customerId # Val(invoice).customerId

(***************************************************************************)
(* Claims about the history, under Spec                                    *)
(***************************************************************************)
\* C37: each delivered invoice is in the history once: no two entries of the
\* history have the same identity, and the usage counts of the customers
\* add up to the number of finalized invoices, also when the download or a
\* share is started again on the share screen before the timer of the reset
\* has run.
C37_RecordedOnce ==
  /\ \A i, j \in 1..Len(getInvoices) :
       i # j => getInvoices[i].id # getInvoices[j].id
  /\ UsageSum(getCustomers) = Cardinality(Ids(getInvoices))

(***************************************************************************)
(* Claims about added items while a reload waits, under SpecCatalog        *)
(***************************************************************************)
\* C38: after any sequence of added items, also of items added while the
\* reload of the products that an earlier one started has not returned, the
\* products key holds at most one product of a name, without regard to case.
C38_OneProductPerName ==
  \A i, j \in 1..Len(getProducts) :
    i # j => toLowerCase(getProducts[i].name) # toLowerCase(getProducts[j].name)

(***************************************************************************)
(* Claims about the reload of the settings, under SpecSettings             *)
(***************************************************************************)
\* C39: when the reload that saving the settings started returns, the
\* session stays where it got in the meantime: with the settings screen
\* left, the screen, the selected customer and the invoice are after the
\* return what they were before it; a session on the items screen stays on
\* the items screen.
C39_ReloadKeepsSession ==
  [][\A i \in 1..MaxPending, outcome \in FetchOutcomes :
       (/\ fetchSettles(i, outcome, SheetOfMilk)
        /\ pendingFetches[i].then = "saveConfig"
        /\ screen # "settings")
         => UNCHANGED <<screen, selectedCustomer, invoice>>]_vars

(***************************************************************************)
(* Claims about the data of a customer taken off the invoice, under Spec   *)
(***************************************************************************)
\* the invoice holds nothing of a customer
NoCustomerData(inv) ==
  /\ inv.customerId = 0
  /\ inv.customerName = <<>>
  /\ inv.customerPhone = None
  /\ inv.customerAddress = None

\* C40: after the Change button the invoice holds no data of the customer
\* it had: identity, name, phone and address are empty in the invoice in
\* memory and in the persisted draft, and stay so until a customer is
\* selected.
C40_ChangeClearsCustomerData ==
  [][/\ changeCustomer
          => /\ NoCustomerData(Val(invoice'))
             /\ NoCustomerData(Val(draftStore'))
     /\ (/\ OnCustomerScreen
         /\ selectedCustomer = None
         /\ NoCustomerData(Val(invoice))
         /\ ~SelectCustomerStep
         /\ IsSome(invoice'))
          => NoCustomerData(Val(invoice'))]_vars

====
